---- MODULE Spec2Model ----
(***************************************************************************)
(* A model of the concurrency core of the RROS kernel (RISC-V, S-mode):    *)
(* ticket locks, the IRQ-disabling ticket lock, the lock-level hierarchy,  *)
(* the per-hart epilogue flag, the Rust trap entry, the registry of trap    *)
(* handlers, the page-frame allocator, the kernel page tables, the CPU map *)
(* the numbering of interrupt causes, the accessors of the trap context    *)
(* and the enable bits of the interrupt controller.                        *)
(*                                                                         *)
(* The module holds several state machines over one set of variables; each *)
(* specification moves its own group of variables and leaves the others    *)
(* as Init set them.                                                       *)
(*   LockSpec / LockFairSpec : one Ticketlock used by several harts        *)
(*   LevelSpec               : Level::enter / Level::leave on level tokens *)
(*   IrqSpec                 : IRQTicketlocks, sstatus.SIE and trap arrival  *)
(*   EpiSpec / EpiFairSpec   : epilogue::try_enter / leave, the pending      *)
(*                             arrays and trap_handler                       *)
(*   KernelSpec              : the kernel's locks on the paths that take them *)
(*   RegistrySpec            : the registry of trap handlers                *)
(*   MemSpec                 : the page-frame allocator and the page tables *)
(*   CpuMapSpec              : the map from hart ids to logical CPU ids    *)
(*   CauseSpec               : interrupt causes and their table indices     *)
(*   TicketSpec              : one Ticketlock under every method it has    *)
(*   TrapContextSpec         : the saved CSR fields of TrapContext         *)
(*   EnableSpec              : InterruptController::configure              *)
(***************************************************************************)
EXTENDS Naturals, Integers, Sequences, FiniteSets, TLC

(***************************************************************************)
(* Bounds of the model.                                                    *)
(***************************************************************************)

\* Number of harts that run concurrently (config::MAX_CPU_NUM allows 8).
NumHarts == 2

\* Tickets a Ticketlock hands out before the model stops drawing new ones.
MaxTicket == 4

\* Tickets an IRQTicketlock hands out before the model stops new calls.
MaxIrqTicket == 2

\* IRQTicketlock calls a hart has in progress at once (nesting depth).
MaxNest == 2

\* Tickets a lock of KernelSpec hands out before the model stops new calls.
MaxKernelTicket == 2

\* Slots of the handler tables and pending arrays (256 each in the code).
NUM_INTERRUPT_HANDLERS == 1

NUM_EXCEPTION_HANDLERS == 1

\* config::MAX_CPU_NUM (8 in the code): the entries of the CPU map.
MAX_CPU_NUM == 3

\* Bits of a bitmap word, and words of the bitmap of the page-frame
\* allocator (u64::BITS = 64 and `[u64; 64]` in the code).
BITS == 6

\* Bits of one virtual page number (9 in Sv39: 512 entries per page table).
VPN_BITS == 4

Harts == 0 .. (NumHarts - 1)

(***************************************************************************)
(* sync/ticketlock.rs : Ticketlock<T, UpperLevel, LowerLevel>              *)
(***************************************************************************)

\* Ticketlock::new: both counters start at 0.
TicketlockNew == [ticket |-> 0, counter |-> 0]

\* lock(): `self.ticket.fetch_add(1, Relaxed)`; the value read is the old one.
FetchAddTicket(l) == [l EXCEPT !.ticket = @ + 1]

\* lock(): the spin loop is left when `ticket == self.counter.load(Acquire)`.
SpinDone(l, t) == t = l.counter

\* Mutant of TryLockCasOk: the result of the compare-exchange is ignored.
TryLockCasOk_Ignored(l, c) == TRUE

\* try_lock(): `compare_exchange(counter, counter + 1)` on `ticket` succeeds
\* iff `ticket` still holds the value loaded from `counter`.
TryLockCasOk(l, c) == l.ticket = c

\* try_lock(): the value the successful compare-exchange stores.
TryLockCasStore(l, c) == [l EXCEPT !.ticket = c + 1]

\* Mutant of GuardUnlock: the release adds 2, skipping the next ticket.
GuardUnlock_SkipsOne(l) == [l EXCEPT !.counter = @ + 2]

\* TicketlockGuard::unlock: `self.counter.fetch_add(1, Release)`.
GuardUnlock(l) == [l EXCEPT !.counter = @ + 1]

\* init_lock(): the guard is made at once; neither word is read or written.
InitLock(l) == l

\* TicketlockGuard::init_unlock: the guard is dropped and a
\* LevelInitialization token made; neither word is written.
GuardInitUnlock(l) == l

\* is_locked(): `counter.load(Relaxed) == ticket.load(Relaxed)`.
is_locked(l) == l.counter = l.ticket

(***************************************************************************)
(* sync/level.rs (generated by build.rs) : the lock-level hierarchy        *)
(***************************************************************************)

\* The levels of the hierarchy, in the order level.rs lists them.
HierarchyLevels ==
    {"Epilogue", "Driver", "Scheduler", "Memory", "Mapping", "Paging",
     "Prologue", "LockedPrologue"}

\* Level::level() of each `impl Level for Level<X>`.
level(X) ==
    CASE X = "Epilogue" -> 7
      [] X = "Driver" -> 6
      [] X = "Scheduler" -> 5
      [] X = "Memory" -> 4
      [] X = "Mapping" -> 3
      [] X = "Paging" -> 2
      [] X = "Prologue" -> 1
      [] X = "LockedPrologue" -> 0

\* LevelInitialization::level() and LevelInvalid::level() are `panic!()`.
LevelPanics(X) == X \in {"Initialization", "Invalid"}

\* `type HigherLevel = ...` of each `impl Level for Level<X>`.
HigherLevel(X) ==
    CASE X = "Epilogue" -> "Driver"
      [] X = "Driver" -> "Scheduler"
      [] X = "Scheduler" -> "Memory"
      [] X = "Memory" -> "Mapping"
      [] X = "Mapping" -> "Paging"
      [] X = "Paging" -> "Prologue"
      [] X = "Prologue" -> "LockedPrologue"
      [] X = "LockedPrologue" -> "Invalid"
      [] OTHER -> "Invalid"

\* `type LowerLevel = ...` of each `impl Level for Level<X>`.
LowerLevel(X) ==
    CASE X = "Epilogue" -> "Epilogue"
      [] X = "Driver" -> "Epilogue"
      [] X = "Scheduler" -> "Driver"
      [] X = "Memory" -> "Scheduler"
      [] X = "Mapping" -> "Memory"
      [] X = "Paging" -> "Mapping"
      [] X = "Prologue" -> "Paging"
      [] X = "LockedPrologue" -> "Prologue"
      [] OTHER -> "Invalid"

\* Level::enter: `assert!(Self::level() > Self::LowerLevel::level())`, then
\* `Self::LowerLevel::create()`.  A panic in level(), in the assertion or in
\* LevelInvalid::create() gives "panic", else the name of the token made.
LevelEnterResult(X) ==
    IF LevelPanics(X) \/ LevelPanics(LowerLevel(X)) THEN "panic"
    ELSE IF level(X) > level(LowerLevel(X)) THEN LowerLevel(X)
    ELSE "panic"

\* Level::leave: `assert!(Self::level() < Self::HigherLevel::level())`, then
\* `Self::HigherLevel::create()`.
LevelLeaveResult(X) ==
    IF LevelPanics(X) \/ LevelPanics(HigherLevel(X)) THEN "panic"
    ELSE IF level(X) < level(HigherLevel(X)) THEN HigherLevel(X)
    ELSE "panic"

(***************************************************************************)
(* kernel/cpu.rs : the supervisor interrupt-enable bit sstatus.SIE          *)
(***************************************************************************)

\* An InterruptFlag that restores to "enabled", whatever was saved.
SaveFlag_AlwaysEnabled(sstatusSie) == TRUE

\* save_and_disable_interrupts: `enabled: sstatus.get_sie()`.
SaveFlag(sstatusSie) == sstatusSie

\* A save that leaves the bit as it found it.
SieAfterSave_Untouched(sstatusSie) == sstatusSie

\* save_and_disable_interrupts: `sstatus.set_sie(false); sstatus.write()`.
SieAfterSave(sstatusSie) == FALSE

\* restore_interrupts: `sstatus.set_sie(flag.enabled); sstatus.write()`.
RestoreSie(flag) == flag

\* An enable_interrupts that leaves the bit as it found it.
SieAfterEnable_Untouched(sstatusSie) == sstatusSie

\* enable_interrupts: `sstatus.set_sie(true); sstatus.write()`.
SieAfterEnable(sstatusSie) == TRUE

\* The harts that IrqSpec and EpiSpec run: sstatus.SIE, the calls in
\* progress, the epilogue flag and the pending arrays are per hart; the
\* second hart is the contender / the bystander.
HartPair == {h \in Harts : h < 2}

\* The IRQTicketlocks of the kernel that are taken with lock(): the PLIC
\* inside INTERRUPT_CONTROLLER and the UART's register block.
IrqLocks == {"INTERRUPT_CONTROLLER", "UART"}

(***************************************************************************)
(* trap/handlers.rs : the per-hart pending arrays                          *)
(***************************************************************************)

Interrupts == {[kind |-> "Interrupt", index |-> i] :
                  i \in 0 .. (NUM_INTERRUPT_HANDLERS - 1)}

Exceptions == {[kind |-> "Exception", index |-> i] :
                  i \in 0 .. (NUM_EXCEPTION_HANDLERS - 1)}

Traps == Interrupts \cup Exceptions

NoTrap == [kind |-> "None", index |-> 0]

\* scause of a supervisor external interrupt, Interrupt::ExternalInterrupt:
\* the controller says which interrupt it is.
ExternalInterrupt == [kind |-> "ExternalInterrupt", index |-> 0]

\* Positions of a hart inside trap_handler, and after its panic.
TrapPcs == {"source", "prologue", "eoi", "enqueue", "todo", "dead"}

\* The lowest index whose bit is set in a pending array (a set of indices).
FirstPending(bits) == CHOOSE i \in bits : \A j \in bits : i <= j

\* TrapHandlers::enqueue: set the bit of the trap in the array of its class.
\* `p` is the pair of arrays of the current hart.
enqueue(p, trap) ==
    IF trap.kind = "Interrupt"
    THEN [p EXCEPT !.interrupts = @ \cup {trap.index}]
    ELSE [p EXCEPT !.exceptions = @ \cup {trap.index}]

\* A dequeue that looks at the exceptions first.
dequeue_ExceptionsFirst(p) ==
    IF p.exceptions # {}
    THEN [trap |-> [kind |-> "Exception", index |-> FirstPending(p.exceptions)],
          pending |-> [p EXCEPT !.exceptions = @ \ {FirstPending(p.exceptions)}]]
    ELSE IF p.interrupts # {}
    THEN [trap |-> [kind |-> "Interrupt", index |-> FirstPending(p.interrupts)],
          pending |-> [p EXCEPT !.interrupts = @ \ {FirstPending(p.interrupts)}]]
    ELSE [trap |-> NoTrap, pending |-> p]

\* TrapHandlers::dequeue: the first pending interrupt, else the first
\* pending exception, else None; the bit of what is returned is cleared.
dequeue(p) ==
    IF p.interrupts # {}
    THEN [trap |-> [kind |-> "Interrupt", index |-> FirstPending(p.interrupts)],
          pending |-> [p EXCEPT !.interrupts = @ \ {FirstPending(p.interrupts)}]]
    ELSE IF p.exceptions # {}
    THEN [trap |-> [kind |-> "Exception", index |-> FirstPending(p.exceptions)],
          pending |-> [p EXCEPT !.exceptions = @ \ {FirstPending(p.exceptions)}]]
    ELSE [trap |-> NoTrap, pending |-> p]

\* `&PANIC`, the handler reference of every slot nobody registered for.
PANIC == "PANIC"

\* The handler references drivers register (uart.rs line 567 registers UART).
HandlerRefs == {"UART", "TIMER"}

(***************************************************************************)
(* trap/cause.rs : enum Interrupt and its conversions to and from usize    *)
(***************************************************************************)

\* The highest source id the interrupt controller hands out here.
MaxSource == 1

\* A value of enum Interrupt: one of the three named variants, or
\* Interrupt::Interrupt(id).
Cause(variant, id) == [variant |-> variant, id |-> id]

NamedInterrupts ==
    {Cause("SoftwareInterrupt", 0), Cause("TimerInterrupt", 0),
     Cause("ExternalInterrupt", 0)}

\* PLIC::claim returns Interrupt::Interrupt(id) for every id but 0.
ClaimedInterrupts == {Cause("Interrupt", id) : id \in 1 .. MaxSource}

InterruptCauses == NamedInterrupts \cup ClaimedInterrupts

\* The length of interrupt_handlers and of pending_interrupts.
InterruptTableLen == 256

\* "Total number of interrupt sources" of the controller: the ids 1 to
\* NUM_INTERRUPT_SOURCES - 1 are the ones it programs and can hand out.
NUM_INTERRUPT_SOURCES == 1024

\* Sources of the controller past those of ClaimedInterrupts: the first id
\* that has no slot, and the last id there is.
FarInterrupts ==
    {Cause("Interrupt", InterruptTableLen),
     Cause("Interrupt", NUM_INTERRUPT_SOURCES - 1)}

\* The causes a trap or a driver can come with.
OccurringCauses == InterruptCauses \cup FarInterrupts

\* The bounds check of `table[index]`: Rust panics when it fails.
IndexInTable(index) == index < InterruptTableLen

NoCause == Cause("None", 0)

\* What CauseSpec keeps of a call: the cause it was given, the cause or the
\* handler it returned, whether it returned at all, and whether its index
\* was inside the table.
CauseCall(op, cause, result, handler, ok, in_range) ==
    [op |-> op, cause |-> cause, result |-> result, handler |-> handler,
     ok |-> ok, in_range |-> in_range]

\* impl From<Interrupt> for usize.
InterruptIntoUsize(interrupt) ==
    CASE interrupt.variant = "SoftwareInterrupt" -> 1
      [] interrupt.variant = "TimerInterrupt" -> 5
      [] interrupt.variant = "ExternalInterrupt" -> 9
      [] OTHER -> interrupt.id

\* impl From<usize> for Interrupt.
InterruptFromUsize(value) ==
    CASE value = 1 -> Cause("SoftwareInterrupt", 0)
      [] value = 5 -> Cause("TimerInterrupt", 0)
      [] value = 9 -> Cause("ExternalInterrupt", 0)
      [] OTHER -> Cause("Interrupt", value)

\* The exceptions CauseSpec raises: an early one and a late one.
ExceptionCauses == {Cause("Breakpoint", 0), Cause("StorePageFault", 0)}

\* impl Into<usize> for Exception.
ExceptionIntoUsize(exception) ==
    CASE exception.variant = "InstructionMisalignedAddr" -> 0
      [] exception.variant = "InstructionAccessFault" -> 1
      [] exception.variant = "IllegalInstruction" -> 2
      [] exception.variant = "Breakpoint" -> 3
      [] exception.variant = "LoadMisalignedAddr" -> 4
      [] exception.variant = "LoadAccessFault" -> 5
      [] exception.variant = "StoreMisalignedAddr" -> 6
      [] exception.variant = "StoreAccessFault" -> 7
      [] exception.variant = "EnvCallUser" -> 8
      [] exception.variant = "EnvCallSupervisor" -> 9
      [] exception.variant = "InstructionPageFault" -> 12
      [] exception.variant = "LoadPageFault" -> 13
      [] exception.variant = "StorePageFault" -> 15
      [] OTHER -> exception.id

\* impl From<usize> for Exception.
ExceptionFromUsize(value) ==
    CASE value = 0 -> Cause("InstructionMisalignedAddr", 0)
      [] value = 1 -> Cause("InstructionAccessFault", 0)
      [] value = 2 -> Cause("IllegalInstruction", 0)
      [] value = 3 -> Cause("Breakpoint", 0)
      [] value = 4 -> Cause("LoadMisalignedAddr", 0)
      [] value = 5 -> Cause("LoadAccessFault", 0)
      [] value = 6 -> Cause("StoreMisalignedAddr", 0)
      [] value = 7 -> Cause("StoreAccessFault", 0)
      [] value = 8 -> Cause("EnvCallUser", 0)
      [] value = 9 -> Cause("EnvCallSupervisor", 0)
      [] value = 12 -> Cause("InstructionPageFault", 0)
      [] value = 13 -> Cause("LoadPageFault", 0)
      [] value = 15 -> Cause("StorePageFault", 0)
      [] OTHER -> Cause("Exception", value)

\* The class of a cause: a value of enum Interrupt or of enum Exception.
IsInterruptCause(cause) ==
    cause.variant \in {"SoftwareInterrupt", "TimerInterrupt",
                       "ExternalInterrupt", "Interrupt"}

\* Trap::Interrupt(interrupt) or Trap::Exception(exception), by the index
\* the tables know it under.
TrapOfCause(cause) ==
    IF IsInterruptCause(cause)
    THEN [kind |-> "Interrupt", index |-> InterruptIntoUsize(cause)]
    ELSE [kind |-> "Exception", index |-> ExceptionIntoUsize(cause)]

\* What dequeue builds from the index of the bit it found.
CauseOfTrap(trap) ==
    IF trap = NoTrap THEN NoCause
    ELSE IF trap.kind = "Interrupt" THEN InterruptFromUsize(trap.index)
    ELSE ExceptionFromUsize(trap.index)

\* The slots of interrupt_handlers, and bits of pending_interrupts, that the
\* causes above can name.
CauseSlots == {InterruptIntoUsize(interrupt) : interrupt \in InterruptCauses}

\* The causes register can be called with: those that have a slot, and for
\* each class the first index past the table.
RegisterCauses ==
    {[kind |-> "Interrupt", index |-> i] : i \in 0 .. NUM_INTERRUPT_HANDLERS}
    \cup {[kind |-> "Exception", index |-> i] : i \in 0 .. NUM_EXCEPTION_HANDLERS}

\* The slot of a trap in the two tables, `handlers.interrupt_handlers[index]`
\* or `handlers.exception_handlers[index]`.
SlotOf(ih, eh, trap) ==
    IF trap.kind = "Interrupt" THEN ih[trap.index] ELSE eh[trap.index]

\* Mutant of SlotIsDefault: register does not look at the slot.
SlotIsDefault_Unchecked(ref) == TRUE

\* register lines 70 and 80: the slot may be written when the reference in
\* it is the one to PANIC.
SlotIsDefault(ref) == ref = PANIC

(***************************************************************************)
(* kernel/cpu_map.rs : CPU_MAP_IDX and CPU_MAP are declared `const`, not   *)
(* `static`: every mention of them is a fresh UnsafeCell with the initial  *)
(* value, which lives until the end of the statement.                      *)
(***************************************************************************)

\* The result of a call that panicked.
Panicked == 0 - 1

\* What reading through a reference to a dead temporary can yield: the
\* initial value, or whatever the stack slot holds by then.
DanglingUsize == 0 .. MAX_CPU_NUM

\* register_hart, lines 39-70: cpu_map_idx points to a temporary that is
\* dead after line 47, so the index checked, used and returned is `idx`; the
\* writes of lines 60 and 67 go to temporaries.
register_hart(hart_id, idx) ==
    IF idx >= MAX_CPU_NUM THEN Panicked ELSE idx

\* lookup_logical_id, lines 76-96: cpu_map refers to a dead temporary that
\* was filled with HartID(0); `found` is the first entry the loop reads as
\* equal to hart_id, MAX_CPU_NUM when it reads none.
lookup_logical_id(hart_id, found) ==
    IF found >= MAX_CPU_NUM THEN Panicked ELSE found

\* The value line 111 of lookup_hart_id reads: the temporary is alive within
\* the statement and holds its initial value.
FreshCpuMapIdx == 0

\* A lookup_hart_id that finds the hart register_hart was called with.
lookup_hart_id_Registered(logical_id, registered) ==
    IF logical_id >= Len(registered) THEN Panicked
    ELSE registered[logical_id + 1]

\* lookup_hart_id, lines 102-122; `registered` are the calls made so far.
lookup_hart_id(logical_id, registered) ==
    IF logical_id >= FreshCpuMapIdx THEN Panicked ELSE 0

\* cpu_map::initialize (main.rs line 107) has called register_hart for the
\* harts of the machine, in the order of their hart ids.
RegisteredHarts == <<0, 1>>

(***************************************************************************)
(* sync/epilogue.rs : the per-hart epilogue flag                           *)
(***************************************************************************)

\* A trap_handler that goes on to drain the pending epilogues itself.
TrapHandlerEnd_Drains == "lv_dequeue"

\* Where trap_handler ends: `todo!("Execute pending epilogues")` panics, and
\* the panic handler parks the hart.
TrapHandlerEnd == "dead"

\* An index that ignores the calling hart.
EpilogueIndex_Shared(h) == 0

\* `EPILOGUE_STATE[cpu::current().raw()]`.
EpilogueIndex(h) == h

(***************************************************************************)
(* The locks of the kernel and the paths on which it takes them            *)
(***************************************************************************)

\* sync/ticketlock.rs lines 218-239: the lock types over the hierarchy, the
\* level of the token each consumes (upper) and yields (lower).
LockTypes ==
    [ TicketlockEpilogue  |-> [upper |-> "Epilogue",  lower |-> "Driver"],
      TicketlockDriver    |-> [upper |-> "Driver",    lower |-> "Scheduler"],
      TicketlockScheduler |-> [upper |-> "Scheduler", lower |-> "Memory"],
      TicketlockMemory    |-> [upper |-> "Memory",    lower |-> "Mapping"],
      TicketlockMapping   |-> [upper |-> "Mapping",   lower |-> "Paging"],
      TicketlockPaging    |-> [upper |-> "Paging",    lower |-> "Prologue"],
      IRQTicketlock       |-> [upper |-> "Prologue",  lower |-> "LockedPrologue"] ]

\* The page-frame allocator behind a Memory-level lock.
LockTypeOf_AllocatorAtMemory(l) ==
    CASE l = "kernel_pts_1" -> "TicketlockMapping"
      [] l = "PAGE_FRAME_ALLOCATOR" -> "TicketlockMemory"
      [] l = "RTC" -> "TicketlockDriver"
      [] OTHER -> "IRQTicketlock"

\* The locks that are taken with lock() after boot, and their types:
\* VirtualMemorySystem::kernel_pts_1 (mapping.rs; user_pts_1 is used the same
\* way), PageFrameAllocator::state, GoldfishRTC::config_space, the PLIC in
\* INTERRUPT_CONTROLLER and the UART registers (the timer's are used the
\* same way).
LockTypeOf(l) ==
    CASE l = "kernel_pts_1" -> "TicketlockMapping"
      [] l = "PAGE_FRAME_ALLOCATOR" -> "TicketlockPaging"
      [] l = "RTC" -> "TicketlockDriver"
      [] OTHER -> "IRQTicketlock"

KernelLocks ==
    {"kernel_pts_1", "PAGE_FRAME_ALLOCATOR", "RTC", "INTERRUPT_CONTROLLER", "UART"}

Acquire(l) == [op |-> "lock", lk |-> l]

Release(l) == [op |-> "unlock", lk |-> l]

\* An allocate that takes the mapping lock while it holds the allocator's.
AllocatePath_ThenMapping ==
    << Acquire("PAGE_FRAME_ALLOCATOR"), Acquire("kernel_pts_1"),
       Release("kernel_pts_1"), Release("PAGE_FRAME_ALLOCATOR") >>

\* PageFrameAllocator::allocate (lines 83-100) and ::free (lines 151-160).
AllocatePath ==
    << Acquire("PAGE_FRAME_ALLOCATOR"), Release("PAGE_FRAME_ALLOCATOR") >>

\* What kernel code does with locks outside trap_handler:
\*   create (mapping.rs lines 328-425) and lookup when no table is allocated,
\*   create when it allocates an L3 table (line 387),
\*   allocate / free, and GoldfishRTC::wait (rtc.rs lines 103-112).
ThreadPaths ==
    { << Acquire("kernel_pts_1"), Release("kernel_pts_1") >>,
      << Acquire("kernel_pts_1") >> \o AllocatePath \o << Release("kernel_pts_1") >>,
      AllocatePath,
      << Acquire("RTC"), Release("RTC") >> }

\* What trap_handler (lines 383-427) does with locks before it panics:
\*   an interrupt other than the external one whose prologue takes the
\*   IRQTicketlock of its driver (as those of uart.rs and timer.rs do): the
\*   prologue, then InterruptController::end_of_interrupt, which takes the
\*   controller's lock (intc.rs line 248) and panics in lookup_hart_id (line
\*   251) with the guard;
\*   such an interrupt whose prologue takes no lock;
\*   an exception, which gets to the todo!(), and the external interrupt,
\*   for which InterruptController::source panics in lookup_hart_id (line
\*   229) before it takes the lock: nothing.
TrapPaths ==
    { << Acquire("UART"), Release("UART"), Acquire("INTERRUPT_CONTROLLER") >>,
      << Acquire("INTERRUPT_CONTROLLER") >>,
      << >> }

(***************************************************************************)
(* mm/page_allocator.rs : the bitmap allocator of page frames              *)
(***************************************************************************)

\* cpu::page_size().
PAGE_SIZE == 4096

\* Entries of a page table.
Entries == 2 ^ VPN_BITS

\* compiler::pages_mem_phys_start(), a symbol of the linker script.
PagesMemPhysStart == 64 * PAGE_SIZE

\* compiler::pages_mem_virt_start(): the `pages` range lies in the kernel
\* half, in the window of the root entry before the last one.
PagesMemVirtStart == (Entries - 2) * Entries * Entries * PAGE_SIZE

\* compiler::pages_mem_size() for a range that fills `words` bitmap words.
PagesMemSize(words) == words * BITS * PAGE_SIZE

\* PageFrameAllocator::initialize: for every page i of the range, word
\* `i / u64::BITS` gets bit `i / u64::BITS`.
PageFrameAllocator_initialize(words) ==
    [idx \in 0 .. (BITS - 1) |->
        {i \div BITS : i \in {j \in 0 .. ((PagesMemSize(words) \div PAGE_SIZE) - 1) :
                                j \div BITS = idx}}]

\* PageFrameAllocator::virt_to_phys, with its three assertions.
virt_to_phys(virt_addr, words) ==
    IF \/ virt_addr % PAGE_SIZE # 0
       \/ virt_addr < PagesMemVirtStart
       \/ virt_addr >= PagesMemVirtStart + PagesMemSize(words)
    THEN [panic |-> TRUE, addr |-> 0]
    ELSE [panic |-> FALSE,
          addr |-> PagesMemPhysStart + (virt_addr - PagesMemVirtStart)]

\* PageFrameAllocator::phys_to_virt, with its three assertions.
phys_to_virt(phys_addr, words) ==
    IF \/ phys_addr % PAGE_SIZE # 0
       \/ phys_addr < PagesMemPhysStart
       \/ phys_addr >= PagesMemPhysStart + PagesMemSize(words)
    THEN [panic |-> TRUE, addr |-> 0]
    ELSE [panic |-> FALSE,
          addr |-> PagesMemVirtStart + (phys_addr - PagesMemPhysStart)]

\* The frame of the pool a physical address of the pool lies in.
FrameOf(phys_addr) == (phys_addr - PagesMemPhysStart) \div PAGE_SIZE

\* The set bits of the bitmap as <<word, bit>> pairs.
SetBits(state) ==
    {ib \in (0 .. (BITS - 1)) \X (0 .. (BITS - 1)) : ib[2] \in state[ib[1]]}

\* The first set bit in the order of the two loops of __allocate: the
\* first word with a set bit and the lowest set bit of it.
FirstSetBit(state) ==
    LET idx == CHOOSE i \in 0 .. (BITS - 1) :
                   /\ state[i] # {}
                   /\ \A j \in 0 .. (i - 1) : state[j] = {}
        offset == CHOOSE b \in state[idx] : \A c \in state[idx] : b <= c
    IN <<idx, offset>>

\* The frames the model keeps the memory of: those whose bit initialize
\* sets for the largest range, which are the only ones __allocate can hand
\* out.
PoolFrames ==
    {BITS * ib[1] + ib[2] : ib \in SetBits(PageFrameAllocator_initialize(BITS))}

\* Mutant of AllocateNone: a null address is returned as if it were a frame.
AllocateNone_ReturnsNull(state) ==
    [result |-> "Ok", state |-> state, addr |-> 0, zeroed |-> FALSE]

\* __allocate line 79: no bit is set.
AllocateNone(state) ==
    [result |-> "OutOfMemory", state |-> state, addr |-> 0, zeroed |-> FALSE]

\* Mutant of MarkOccupied: the bit of the frame stays set.
MarkOccupied_Skipped(state, idx, offset) == state

\* __allocate line 59, `*state &= !(1 << offset)`: the frame is marked as
\* occupied.
MarkOccupied(state, idx, offset) == [state EXCEPT ![idx] = @ \ {offset}]

\* PageFrameAllocator::__allocate: the first set bit is cleared and the
\* address of its frame computed and checked; no set bit is OutOfMemory.
\* `zeroed` says that the frame at `addr` has been filled with zeros.
pfa_allocate(state, words) ==
    IF \A i \in 0 .. (BITS - 1) : state[i] = {}
    THEN AllocateNone(state)
    ELSE LET first == FirstSetBit(state)
             idx == first[1]
             offset == first[2]
             cleared == MarkOccupied(state, idx, offset)
             page_offset == (BITS * idx + offset) * PAGE_SIZE
             v_page == PagesMemVirtStart + page_offset
             p_page == virt_to_phys(v_page, words)
         IN IF p_page.panic
            THEN [result |-> "panic", state |-> cleared, addr |-> 0,
                  zeroed |-> FALSE]
            ELSE [result |-> "Ok", state |-> cleared, addr |-> p_page.addr,
                  zeroed |-> TRUE]

\* PageFrameAllocator::__free: the assertions, then the bit of the page is
\* set.
pfa_free(state, page, words) ==
    LET v_page == phys_to_virt(page, words)
        page_offset == v_page.addr - PagesMemVirtStart
        idx == (page_offset \div PAGE_SIZE) \div BITS
        offset == (page_offset \div PAGE_SIZE) % BITS
    IN IF v_page.panic THEN [result |-> "panic", state |-> state]
       ELSE IF offset \in state[idx] THEN [result |-> "panic", state |-> state]
       ELSE [result |-> "Ok", state |-> [state EXCEPT ![idx] = @ \cup {offset}]]

(***************************************************************************)
(* mm/pte.rs, mm/mapping.rs : page-table entries and the three-level walk  *)
(***************************************************************************)

\* PageTableEntry(0): the entry of a zeroed table.
ZeroPte ==
    [V |-> FALSE, R |-> FALSE, W |-> FALSE, X |-> FALSE, U |-> FALSE, PPN |-> 0]

\* A page frame filled with zeros, read as a page table.
ZeroPage == [i \in 0 .. (Entries - 1) |-> ZeroPte]

\* Mutant of write_bytes_zero: the frame is handed out as it is.
write_bytes_zero_Skipped(content) == content

\* __allocate line 72: `v_page.as_mut_ptr().write_bytes(0, cpu::page_size())`.
write_bytes_zero(content) == ZeroPage

\* PHYSICAL_PAGE_NUMBER_SIZE (1 << 44 in pte.rs), scaled to the addresses of
\* the model.
PHYSICAL_PAGE_NUMBER_SIZE == 2 ^ 30

\* pte.rs lines 149-157: the address is stored in the PPN field; an address
\* that does not fit panics.
set_physical_page(pte, phys_addr) ==
    IF phys_addr >= PHYSICAL_PAGE_NUMBER_SIZE
    THEN [panic |-> TRUE, pte |-> pte]
    ELSE [panic |-> FALSE, pte |-> [pte EXCEPT !.PPN = phys_addr]]

\* pte.rs lines 143-146: the PPN field, masked to its width.
get_physical_page(pte) == pte.PPN % PHYSICAL_PAGE_NUMBER_SIZE

\* pte.rs lines 82-84.
is_inner_page_table(pte) == ~pte.R /\ ~pte.W /\ ~pte.X

Protections == {"R", "RW", "X", "RX", "RWX"}

\* Protection::is_readable, is_writable, is_executable.
is_readable(protection) == protection \in {"R", "RW", "RX", "RWX"}

\* Mutant of is_writable: no protection counts as writable.
is_writable_Never(protection) == FALSE

is_writable(protection) == protection \in {"RW", "RWX"}

is_executable(protection) == protection \in {"X", "RX", "RWX"}

\* lookup lines 657-672: the protection three bits stand for; a combination
\* outside the five panics.
ProtectionOf(r, w, x) ==
    CASE r /\ w /\ x -> "RWX"
      [] r /\ w /\ ~x -> "RW"
      [] r /\ ~w /\ x -> "RX"
      [] r /\ ~w /\ ~x -> "R"
      [] ~r /\ ~w /\ x -> "X"
      [] OTHER -> "panic"

\* lookup lines 673-676.
ModeOf(u) == IF u THEN "User" ELSE "Kernel"

\* VirtualMemorySystem::offset, lines 782-791: the virtual page number of a
\* level (0 is the root), `(addr >> shift) & mask`.
offset(virt_addr, lvl) ==
    LET shift == CASE lvl = 0 -> PAGE_SIZE * Entries * Entries
                   [] lvl = 1 -> PAGE_SIZE * Entries
                   [] lvl = 2 -> PAGE_SIZE
    IN (virt_addr \div shift) % Entries

\* `0 | 1 | 2 | 3` and `508 | 509 | 510 | 511`: the root slots of the user
\* half and of the kernel half.
UserSlots == 0 .. 3

KernelSlots == (Entries - 4) .. (Entries - 1)

\* The virtual address with the three page numbers and page offset 0.
VirtualAddress(vpn_0, vpn_1, vpn_2) ==
    ((vpn_0 * Entries + vpn_1) * Entries + vpn_2) * PAGE_SIZE

\* The virtual addresses calls are made with: two pages of the last kernel
\* window that share a third-level table, one of the first kernel window,
\* one of the user half and one of neither half.
VirtInputs ==
    { VirtualAddress(Entries - 1, 0, 0), VirtualAddress(Entries - 1, 0, 1),
      VirtualAddress(Entries - 4, 1, 0), VirtualAddress(0, 0, 0),
      VirtualAddress(4, 0, 0) }

\* Addresses lookup is also called with: two pages of the `pages` range.
PoolVirtInputs == {PagesMemVirtStart, PagesMemVirtStart + PAGE_SIZE}

\* The physical addresses create is called with: an address inside a device
\* page, and one too wide for a page-table entry.
PhysInputs ==
    { 1025 * PAGE_SIZE + 8, PHYSICAL_PAGE_NUMBER_SIZE + PAGE_SIZE }

\* PhysicalAddress::null().
NullAddress == 0

\* Ticketlock::lock: the token the lock of a type hands out.
TokenAfterLock(type) == LockTypes[type].lower

\* TicketlockGuard::unlock: the token the unlock of a type returns.
TokenAfterUnlock(type) == LockTypes[type].upper

\* Mutant of ReleaseGuard: the guard is dropped without releasing the lock.
ReleaseGuard_Forgotten(held, l) == held

\* TicketlockGuard::unlock and init_unlock: the lock is released.
ReleaseGuard(held, l) == held \ {l}

\* What a page that its owner has written holds, and what memory holds
\* before anything has written it: entries that look valid.
DataPte ==
    [V |-> TRUE, R |-> FALSE, W |-> TRUE, X |-> FALSE, U |-> TRUE,
     PPN |-> PagesMemPhysStart]

DataPage == [i \in 0 .. (Entries - 1) |-> DataPte]

\* The entry `vpn` of the page table at physical address p_pt.
PteAt(fr, p_pt, vpn) == fr[FrameOf(p_pt)][vpn]

SetPte(fr, p_pt, vpn, pte) == [fr EXCEPT ![FrameOf(p_pt)][vpn] = pte]

\* The memory after __allocate returned `a`: the frame has been zeroed.
AllocatedFrames(fr, a) ==
    IF a.zeroed
    THEN [fr EXCEPT ![FrameOf(a.addr)] = write_bytes_zero(@)]
    ELSE fr

\* Mutant of MappingExists: a valid leaf is not noticed.
MappingExists_Ignored(pte_2) == FALSE

\* create lines 406-410, `match pte_2.is_valid()`: the mapping for the
\* virtual address already exists.
MappingExists(pte_2) == pte_2.V

\* Mutant of RootMissError: a miss in the root table is reported like a miss
\* further down.
RootMissError_NoSuchAddress == "NoSuchAddress"

\* lookup lines 610-612: the error for an invalid entry of the root table.
RootMissError == "InvalidAddress"

\* The result of a call of the mapping code: how it ended, the memory and
\* the bitmap it leaves, the locks it still holds and the token it returns.
Ret(result, fr, al, held, token) ==
    [result |-> result, frames |-> fr, state |-> al, held |-> held,
     token |-> token]

\* create lines 401-424 and early_create lines 500-523: the leaf entry for
\* virt_addr in the third-level table at p_pt_2, with the lock l held.
create_leaf(fr, al, words, p_pt_2, phys_addr, virt_addr, protection, mode, l, lt) ==
    IF phys_to_virt(p_pt_2, words).panic
    THEN Ret("panic", fr, al, {l}, "none")
    ELSE LET vpn_2 == offset(virt_addr, 2)
             pte_2 == PteAt(fr, p_pt_2, vpn_2)
             sp == set_physical_page(pte_2, phys_addr)
             leaf == [sp.pte EXCEPT !.R = is_readable(protection),
                                    !.W = is_writable(protection),
                                    !.X = is_executable(protection),
                                    !.U = (mode = "User"),
                                    !.V = TRUE]
         IN IF MappingExists(pte_2)
            THEN Ret("AddressAlreadyInUse", fr, al, ReleaseGuard({l}, l),
                     TokenAfterUnlock(lt))
            ELSE IF sp.panic
            THEN Ret("panic", fr, al, {l}, "none")
            ELSE Ret("Ok", SetPte(fr, p_pt_2, vpn_2, leaf), al,
                     ReleaseGuard({l}, l), TokenAfterUnlock(lt))

\* VirtualMemorySystem::create, lines 328-425.  `page` is null for create,
\* which allocates the third-level table when it needs one, and the frame
\* allocated up front for early_create.
create(fr, al, words, rt, kpts, phys_addr, virt_addr, protection, mode, token, page) ==
    LET vpn_0 == offset(virt_addr, 0)
        vpn_1 == offset(virt_addr, 1)
        l == IF vpn_0 \in UserSlots THEN "user_pts_1" ELSE "kernel_pts_1"
        lt == "TicketlockMapping"
        p_pt_1 == IF vpn_0 \in UserSlots THEN NullAddress
                  ELSE kpts[vpn_0 - (Entries - 4)]
    IN IF phys_to_virt(rt, words).panic
       THEN Ret("panic", fr, al, {}, "none")
       ELSE IF ~PteAt(fr, rt, vpn_0).V
       THEN Ret("InvalidAddress", fr, al, {}, token)
       ELSE IF vpn_0 \in UserSlots /\ mode # "User"
       THEN Ret("InvalidAddress", fr, al, {}, token)
       ELSE IF vpn_0 \in KernelSlots /\ mode # "Kernel"
       THEN Ret("InvalidAddress", fr, al, {}, token)
       ELSE IF vpn_0 \notin (UserSlots \cup KernelSlots)
       THEN Ret("InvalidAddress", fr, al, {}, token)
       ELSE IF phys_to_virt(p_pt_1, words).panic
       THEN Ret("panic", fr, al, {l}, "none")
       ELSE LET pte_1 == PteAt(fr, p_pt_1, vpn_1)
                a == IF page = NullAddress
                     THEN pfa_allocate(al, words)
                     ELSE [result |-> "Ok", state |-> al, addr |-> page,
                           zeroed |-> FALSE]
                inner == [set_physical_page(pte_1, a.addr).pte EXCEPT !.V = TRUE]
            IN IF pte_1.V
               THEN IF ~is_inner_page_table(pte_1) \/ pte_1.U
                    THEN Ret("panic", fr, al, {l}, "none")
                    ELSE create_leaf(fr, al, words, get_physical_page(pte_1),
                                     phys_addr, virt_addr, protection, mode, l, lt)
               ELSE IF a.result = "OutOfMemory"
               THEN Ret("OutOfMemory", fr, a.state, ReleaseGuard({l}, l),
                        TokenAfterUnlock(lt))
               ELSE IF a.result = "panic"
               THEN Ret("panic", fr, a.state, {l, "PAGE_FRAME_ALLOCATOR"}, "none")
               ELSE create_leaf(SetPte(AllocatedFrames(fr, a), p_pt_1, vpn_1, inner),
                                a.state, words, a.addr,
                                phys_addr, virt_addr, protection, mode, l, lt)

\* VirtualMemorySystem::early_create, lines 429-524: a frame is allocated
\* first, whether or not the walk needs it.
early_create(fr, al, words, rt, kpts, phys_addr, virt_addr, protection, mode) ==
    LET a == pfa_allocate(al, words)
    IN IF a.result = "Ok"
       THEN create(AllocatedFrames(fr, a), a.state, words, rt, kpts, phys_addr,
                   virt_addr, protection, mode, "Initialization", a.addr)
       ELSE Ret(a.result, fr, a.state,
                IF a.result = "panic" THEN {"PAGE_FRAME_ALLOCATOR"} ELSE {},
                "Initialization")

\* compiler::data_segment_virt_start() - data_segment_phys_start(): the
\* distance between the kernel image in virtual and in physical memory.
DataSegmentOffset == VirtualAddress(Entries - 1, 0, 0) - 1024 * PAGE_SIZE

\* HUGE_PAGE_SIZE (2 MiB): what one entry of a second-level table maps.
HUGE_PAGE_SIZE == Entries * PAGE_SIZE

\* The huge pages of the `pages` range.  The linker script makes the range
\* a multiple of the huge page (the assertions of lines 265-269); the
\* ranges of the model are not, and the huge pages that cover them are
\* counted.
HugePages(words) ==
    0 .. (((PagesMemSize(words) + HUGE_PAGE_SIZE - 1) \div HUGE_PAGE_SIZE) - 1)

\* The entry initalize writes for a huge page, lines 304-309: a readable
\* and writable kernel leaf in a second-level table.
HugeLeaf(phys_addr) ==
    [set_physical_page(ZeroPte, phys_addr).pte EXCEPT
        !.R = TRUE, !.W = TRUE, !.X = FALSE, !.U = FALSE, !.V = TRUE]

\* initalize lines 263-316, "Map Page Tables as 128 2MiB Huge-Page": every
\* huge page of the `pages` range gets a leaf entry in the second-level
\* table of its window.  A root entry that is not valid, a window outside
\* the kernel half and an entry that is valid already panic.
map_huge_pages(fr, words, rt, kpts) ==
    LET virt_addr(i) == PagesMemVirtStart + i * HUGE_PAGE_SIZE
        phys_addr(i) == PagesMemPhysStart + i * HUGE_PAGE_SIZE
        vpn_0(i) == offset(virt_addr(i), 0)
        vpn_1(i) == offset(virt_addr(i), 1)
        p_pt_1(i) == kpts[vpn_0(i) - (Entries - 4)]
        Panics(i) == \/ ~PteAt(fr, rt, vpn_0(i)).V
                     \/ vpn_0(i) \notin KernelSlots
                     \/ PteAt(fr, p_pt_1(i), vpn_1(i)).V
        Written(f, vpn) == {i \in HugePages(words) :
                              FrameOf(p_pt_1(i)) = f /\ vpn_1(i) = vpn}
    IN IF \E i \in HugePages(words) : Panics(i)
       THEN [panic |-> TRUE, frames |-> fr]
       ELSE [panic |-> FALSE,
             frames |-> [f \in DOMAIN fr |->
                           [vpn \in 0 .. (Entries - 1) |->
                              IF Written(f, vpn) = {} THEN fr[f][vpn]
                              ELSE HugeLeaf(phys_addr(CHOOSE i \in Written(f, vpn) : TRUE))]]]

\* `(x + page_size - 1) & !(page_size - 1)`.
AlignUp(x) == ((x + PAGE_SIZE - 1) \div PAGE_SIZE) * PAGE_SIZE

\* VirtualMemorySystem::lookup, lines 595-683.
lookup(fr, words, rt, kpts, virt_addr, token) ==
    LET vpn_0 == offset(virt_addr, 0)
        vpn_1 == offset(virt_addr, 1)
        vpn_2 == offset(virt_addr, 2)
        l == IF vpn_0 \in UserSlots THEN "user_pts_1" ELSE "kernel_pts_1"
        lt == "TicketlockMapping"
        p_pt_1 == IF vpn_0 \in UserSlots THEN NullAddress
                  ELSE kpts[vpn_0 - (Entries - 4)]
        Found(result, held, tok, addr, prot, mode) ==
            [result |-> result, held |-> held, token |-> tok, addr |-> addr,
             protection |-> prot, mode |-> mode]
        Err(result, held, tok) == Found(result, held, tok, 0, "none", "none")
    IN IF phys_to_virt(rt, words).panic
       THEN Err("panic", {}, "none")
       ELSE IF ~PteAt(fr, rt, vpn_0).V
       THEN Err(RootMissError, {}, token)
       ELSE IF vpn_0 \notin (UserSlots \cup KernelSlots)
       THEN Err("InvalidAddress", {}, token)
       ELSE IF phys_to_virt(p_pt_1, words).panic
       THEN Err("panic", {l}, "none")
       ELSE LET pte_1 == PteAt(fr, p_pt_1, vpn_1)
                p_pt_2 == get_physical_page(pte_1)
            IN IF ~pte_1.V
               THEN Err("NoSuchAddress", ReleaseGuard({l}, l), TokenAfterUnlock(lt))
               ELSE IF ~is_inner_page_table(pte_1) \/ pte_1.U
               THEN Err("panic", {l}, "none")
               ELSE IF phys_to_virt(p_pt_2, words).panic
               THEN Err("panic", {l}, "none")
               ELSE LET pte_2 == PteAt(fr, p_pt_2, vpn_2)
                        protection == ProtectionOf(pte_2.R, pte_2.W, pte_2.X)
                    IN IF ~pte_2.V
                       THEN Err("NoSuchAddress", ReleaseGuard({l}, l),
                                TokenAfterUnlock(lt))
                       ELSE IF protection = "panic"
                       THEN Err("panic", {l}, "none")
                       ELSE Found("Ok", ReleaseGuard({l}, l), TokenAfterUnlock(lt),
                                  get_physical_page(pte_2), protection,
                                  ModeOf(pte_2.U))

VARIABLES
    lock,      \* LockSpec: the Ticketlock (ticket, counter)
    lpc,       \* LockSpec: per hart, its position in lock/try_lock/unlock
    lmy,       \* LockSpec: per hart, the local `ticket` / `counter` value
    lspun,     \* LockSpec: per hart, whether its spin loop has iterated
    ltry,      \* LockSpec: per hart, what its last call returned if a try_lock
    vtok,      \* LevelSpec: per hart, the level token it holds, or "panic"
    vlast,     \* LevelSpec: per hart, the last token operation and its input
    sie,       \* IrqSpec: per hart, sstatus.SIE
    ictx,      \* IrqSpec: per hart, "thread", "trap" (in trap_handler) or "dead"
    ilock,     \* IrqSpec: per IRQTicketlock, the inner Ticketlock
    istack,    \* IrqSpec: per hart, its IRQTicketlock calls in progress
    ilast,     \* IrqSpec: per hart, how its last IRQTicketlock call ended
    EPILOGUE_STATE,  \* EpiSpec: per hart, the epilogue in-progress flag
    pending,   \* EpiSpec: per hart, pending_interrupts and pending_exceptions
    esie,      \* EpiSpec: per hart, sstatus.SIE
    epc,       \* EpiSpec: per hart, its position in try_enter / leave /
               \*          trap_handler, "idle" or "dead"
    eloc,      \* EpiSpec: per hart, the locals of the call in progress
    etok,      \* EpiSpec: per hart, the LevelEpilogue tokens it holds
    klock,     \* KernelSpec: per lock, the Ticketlock (ticket, counter)
    ksie,      \* KernelSpec: per hart, sstatus.SIE
    kctx,      \* KernelSpec: per hart, "thread", "trap" or "dead"
    kprog,     \* KernelSpec: per hart, the path it runs and where it is
    kheld,     \* KernelSpec: per hart, the guards it holds, oldest first
    initialized,         \* RegistrySpec: the flag of the InitCell TRAP_HANDLERS
    interrupt_handlers,  \* RegistrySpec: per slot, the handler reference
    exception_handlers,  \* RegistrySpec: per slot, the handler reference
    rwrites,   \* RegistrySpec: per slot, how often register has written it
    rlast,     \* RegistrySpec: the last call, its arguments and how it ended
    pool_words,       \* MemSpec: bitmap words the `pages` range fills
    allocator_state,  \* MemSpec: PageFrameAllocator::state, per word its set bits
    frames,    \* MemSpec: per page frame of the pool, what the memory holds
    owned,     \* MemSpec: frames that callers of (early_)allocate own
    root,      \* MemSpec: VirtualMemorySystem::root, a physical address
    kernel_pts_1,     \* MemSpec: the four kernel second-level tables
    mphase,    \* MemSpec: "start", "boot" (Initialization level), "run", "dead"
    created,   \* MemSpec: per virtual address, what the create that mapped it
               \*          was called with
    mlast,      \* MemSpec: the last call, its arguments and how it ended
    cpu_registered,  \* CpuMapSpec: the hart ids register_hart was called with, in order
    clast,  \* CpuMapSpec: the last call, its argument and what it returned
    plic_claimed,  \* EpiSpec: per hart context, the ids claimed, not completed
    plic_complete,  \* EpiSpec: per hart context, the writes to `complete`
    cause_pending,  \* CauseSpec: the pending arrays of one hart
    cause_handlers,  \* CauseSpec: the interrupt_handlers table
    cause_of,  \* CauseSpec: per handler, the cause it registered for
    cause_queued,  \* CauseSpec: the causes enqueued and not dequeued
    cause_last,  \* CauseSpec: the last call and what it returned
    tl,  \* TicketSpec: the ticket lock, its ticket and counter words
    tpc,  \* TicketSpec: hart -> "idle", "spin", "try", "held" or "init_held"
    tmy,  \* TicketSpec: hart -> the ticket drawn by lock, the counter loaded by try_lock
    tbroken,  \* TicketSpec: a guard was released by the method of the other kind
    tlast,  \* TicketSpec: the last call made on the lock and what it returned
    trap_context,  \* TrapContextSpec: TrapContext, the saved CSR words self.0[31 .. 35]
    context_last,  \* TrapContextSpec: the last accessor called and what it returned
    plic_harts,  \* EnableSpec: `plic.harts`, the hart ids initiailize stored
    plic_enable,  \* EnableSpec: the bits of the configuration space that are set, as 8 * byte offset + bit
    plic_last  \* EnableSpec: the last call on the controller, its arguments and whether it returned

lockVars == <<lock, lpc, lmy, lspun, ltry>>

levelVars == <<vtok, vlast>>

irqVars == <<sie, ictx, ilock, istack, ilast>>

epiVars == <<EPILOGUE_STATE, pending, esie, epc, eloc, etok>>

kernelVars == <<klock, ksie, kctx, kprog, kheld>>

registryVars ==
    <<initialized, interrupt_handlers, exception_handlers, rwrites, rlast>>

memVars ==
    <<pool_words, allocator_state, frames, owned, root, kernel_pts_1, mphase,
      created, mlast>>

cpuVars == <<cpu_registered, clast>>

plicVars == <<plic_claimed, plic_complete>>

causeVars == <<cause_pending, cause_handlers, cause_of, cause_queued, cause_last>>

ticketVars == <<tl, tpc, tmy, tbroken, tlast>>

contextVars == <<trap_context, context_last>>

enableVars == <<plic_harts, plic_enable, plic_last>>

vars ==
    <<lockVars, levelVars, irqVars, epiVars, kernelVars, registryVars, memVars,
      cpuVars,
      plicVars,
      causeVars,
      ticketVars,
      contextVars,
      enableVars>>

\* What each specification leaves alone.
LockOthers ==
    <<levelVars, irqVars, epiVars, kernelVars, registryVars, memVars,
      cpuVars,
      plicVars,
      causeVars,
      ticketVars,
      contextVars,
      enableVars>>

LevelOthers ==
    <<lockVars, irqVars, epiVars, kernelVars, registryVars, memVars,
      cpuVars,
      plicVars,
      causeVars,
      ticketVars,
      contextVars,
      enableVars>>

IrqOthers ==
    <<lockVars, levelVars, epiVars, kernelVars, registryVars, memVars,
      cpuVars,
      plicVars,
      causeVars,
      ticketVars,
      contextVars,
      enableVars>>

EpiOthers ==
    <<lockVars, levelVars, irqVars, kernelVars, registryVars, memVars,
      cpuVars,
      plicVars,
      causeVars,
      ticketVars,
      contextVars,
      enableVars>>

KernelOthers ==
    <<lockVars, levelVars, irqVars, epiVars, registryVars, memVars,
      cpuVars,
      plicVars,
      causeVars,
      ticketVars,
      contextVars,
      enableVars>>

RegistryOthers ==
    <<lockVars, levelVars, irqVars, epiVars, kernelVars, memVars,
      cpuVars,
      plicVars,
      causeVars,
      ticketVars,
      contextVars,
      enableVars>>

MemOthers ==
    <<lockVars, levelVars, irqVars, epiVars, kernelVars, registryVars,
      cpuVars,
      plicVars,
      causeVars,
      ticketVars,
      contextVars,
      enableVars>>

EnableOthers ==
    <<lockVars, levelVars, irqVars, epiVars, kernelVars, registryVars,
      memVars, cpuVars, plicVars, causeVars, ticketVars, contextVars>>

TrapContextOthers ==
    <<lockVars, levelVars, irqVars, epiVars, kernelVars, registryVars,
      memVars, cpuVars, plicVars, causeVars, ticketVars,
      enableVars>>

TicketOthers ==
    <<lockVars, levelVars, irqVars, epiVars, kernelVars, registryVars,
      memVars, cpuVars, plicVars, causeVars,
      contextVars,
      enableVars>>

CauseOthers ==
    <<lockVars, levelVars, irqVars, epiVars, kernelVars, registryVars, memVars, cpuVars, plicVars,
      ticketVars,
      contextVars,
      enableVars>>

\* What the steps of trap_handler that talk to the controller leave alone.
EpiTrapOthers ==
    <<lockVars, levelVars, irqVars, kernelVars, registryVars, memVars, cpuVars,
      causeVars,
      ticketVars,
      contextVars,
      enableVars>>

CpuMapOthers ==
    <<lockVars, levelVars, irqVars, epiVars, kernelVars, registryVars, memVars,
      plicVars,
      causeVars,
      ticketVars,
      contextVars,
      enableVars>>

(***************************************************************************)
(* LockSpec: harts call lock, try_lock and unlock on one Ticketlock in any *)
(* interleaving.  Each action is one atomic memory operation of the code.  *)
(***************************************************************************)

LockVarsInit ==
    /\ lock = TicketlockNew
    /\ lpc = [h \in Harts |-> "idle"]
    /\ lmy = [h \in Harts |-> 0]
    /\ lspun = [h \in Harts |-> FALSE]
    /\ ltry = [h \in Harts |-> "none"]

\* Every hart starts with the token main.rs leaves it with: LevelEpilogue.
LevelVarsInit ==
    /\ vtok = [h \in Harts |-> "Epilogue"]
    /\ vlast = [h \in Harts |-> [op |-> "create", from |-> "Epilogue"]]

IrqNoCall == [op |-> "none", nested |-> FALSE]

\* The IRQTicketlocks as IRQTicketlock::new leaves them; nobody is inside a
\* call.  sstatus.SIE is 0 on a hart until main.rs enables interrupts.
IrqVarsInit ==
    /\ sie = [h \in HartPair |-> FALSE]
    /\ ictx = [h \in HartPair |-> "thread"]
    /\ ilock = [l \in IrqLocks |-> TicketlockNew]
    /\ istack = [h \in HartPair |-> << >>]
    /\ ilast = [h \in HartPair |-> IrqNoCall]

\* Locals of a hart that is not inside a call.
EpiNoLocals ==
    [interrupt_enabled |-> FALSE, success |-> FALSE, interrupt_flag |-> FALSE,
     running |-> NoTrap, trap |-> NoTrap, done |-> NoTrap,
     external |-> FALSE, enqueued |-> FALSE]

\* epilogue.rs lines 14-15 and TrapHandlers::initialize: no epilogue in
\* progress, nothing pending; the harts run with interrupts off and hold no
\* LevelEpilogue token.
EpiVarsInit ==
    /\ EPILOGUE_STATE = [h \in HartPair |-> FALSE]
    /\ pending = [h \in HartPair |-> [interrupts |-> {}, exceptions |-> {}]]
    /\ esie = [h \in HartPair |-> FALSE]
    /\ epc = [h \in HartPair |-> "idle"]
    /\ eloc = [h \in HartPair |-> EpiNoLocals]
    /\ etok = [h \in HartPair |-> 0]

\* After boot (main.rs line 157): every lock free, every hart in kernel
\* code with interrupts enabled, between two paths, holding no guard.
KernelVarsInit ==
    /\ klock = [l \in KernelLocks |-> TicketlockNew]
    /\ ksie = [h \in HartPair |-> TRUE]
    /\ kctx = [h \in HartPair |-> "thread"]
    /\ kprog = [h \in HartPair |-> [path |-> << >>, ip |-> 1, ph |-> "run", my |-> 0]]
    /\ kheld = [h \in HartPair |-> << >>]

\* TrapHandlers::initialize has run (main.rs line 118): every slot holds the
\* reference to PANIC, the cell is not finalized, register has written nothing.
RegistryVarsInit ==
    /\ initialized = FALSE
    /\ interrupt_handlers = [i \in 0 .. (NUM_INTERRUPT_HANDLERS - 1) |-> PANIC]
    /\ exception_handlers = [i \in 0 .. (NUM_EXCEPTION_HANDLERS - 1) |-> PANIC]
    /\ rwrites = [trap \in Traps |-> 0]
    /\ rlast = [op |-> "initialize", trap |-> NoTrap, handler |-> PANIC,
                result |-> "ok"]

\* The entry of `created` for an address no create has mapped.
NotCreated == [phys_addr |-> 0, protection |-> "none", mode |-> "none"]

\* The call mlast records.
Call(op, result, addr, v, protection, mode, token_in, token_out, held) ==
    [op |-> op, result |-> result, addr |-> addr, v |-> v,
     protection |-> protection, mode |-> mode, token_in |-> token_in,
     token_out |-> token_out, held |-> held]

\* PageFrameAllocator::new: no bit is set.  Nothing is mapped and the
\* kernel tables are null until VirtualMemorySystem::initalize.
MemVarsInit ==
    /\ pool_words = BITS
    /\ allocator_state = [idx \in 0 .. (BITS - 1) |-> {}]
    /\ frames = [f \in PoolFrames |-> DataPage]
    /\ owned = {}
    /\ root = NullAddress
    /\ kernel_pts_1 = [i \in 0 .. 3 |-> NullAddress]
    /\ mphase = "reset"
    /\ created = [v \in VirtInputs \cup PoolVirtInputs |-> NotCreated]
    /\ mlast = Call("new", "Ok", 0, 0, "none", "none", "none", "none", {})

\* No hart has been registered.
CpuVarsInit ==
    /\ cpu_registered = << >>
    /\ clast = [op |-> "none", arg |-> 0, result |-> 0]

\* No interrupt is in service at the controller.
PlicVarsInit ==
    /\ plic_claimed = [h \in HartPair |-> {}]
    /\ plic_complete = [h \in HartPair |-> << >>]

\* CauseSpec: nothing is registered and nothing is pending.
CauseVarsInit ==
    /\ cause_pending = [interrupts |-> {}, exceptions |-> {}]
    /\ cause_handlers = [slot \in CauseSlots |-> PANIC]
    /\ cause_of = [handler \in HandlerRefs |-> NoCause]
    /\ cause_queued = {}
    /\ cause_last = CauseCall("none", NoCause, NoCause, PANIC, TRUE, TRUE)

\* What a call on the ticket lock of TicketSpec leaves behind: the method
\* and, for try_lock and is_locked, what it returned.
TicketCall(op, result) == [op |-> op, result |-> result]

\* TicketSpec: Ticketlock::new, no guard exists, no hart is in a call.
TicketVarsInit ==
    /\ tl = TicketlockNew
    /\ tpc = [h \in Harts |-> "idle"]
    /\ tmy = [h \in Harts |-> 0]
    /\ tbroken = FALSE
    /\ tlast = TicketCall("new", FALSE)

\* InterruptController::new, lines 171-181: `harts` is filled with
\* HartID::new(0); the device comes out of reset with no enable bit set.
PlicCall(op, interrupt, hart, ok) ==
    [op |-> op, interrupt |-> interrupt, hart |-> hart, ok |-> ok]

EnableVarsInit ==
    /\ plic_harts = [i \in 1 .. MAX_CPU_NUM |-> 0]
    /\ plic_enable = {}
    /\ plic_last = PlicCall("new", 0, 0, TRUE)

\* The saved CSR fields of TrapContext and the raw values they take.
CsrFields == {"sstatus", "sscratch", "sepc", "scause", "stval"}

RawValues == {0, 1, 2}

\* get_sstatus .. get_stval: the word of `self.0` the getter reads.
GetIndex(field) ==
    CASE field = "sstatus" -> 31
      [] field = "sscratch" -> 32
      [] field = "sepc" -> 33
      [] field = "scause" -> 34
      [] field = "stval" -> 35

\* set_sstatus .. set_stval: the word of `self.0` the setter writes.
SetIndex(field) ==
    CASE field = "sstatus" -> 31
      [] field = "sscratch" -> 31
      [] field = "sepc" -> 31
      [] field = "scause" -> 31
      [] field = "stval" -> 31

\* The words of `self.0` that hold the saved CSRs.
CsrWords == {GetIndex(field) : field \in CsrFields}

\* get_X(): `X::new(self.0[i])`; new wraps the raw value as it is.
get_csr(context, field) == context[GetIndex(field)]

\* set_X(v): `self.0[i] = v.raw()`; raw returns the wrapped value.
set_csr(context, field, v) == [context EXCEPT ![SetIndex(field)] = v]

ContextCall(op, field, value) == [op |-> op, field |-> field, value |-> value]

\* TrapContextSpec: a context whose words are all 0, no accessor called.
ContextVarsInit ==
    /\ trap_context = [i \in CsrWords |-> 0]
    /\ context_last = ContextCall("none", "sstatus", 0)

BootInit ==
    /\ LockVarsInit /\ LevelVarsInit /\ IrqVarsInit /\ EpiVarsInit
    /\ KernelVarsInit /\ RegistryVarsInit /\ MemVarsInit /\ CpuVarsInit
    /\ PlicVarsInit /\ CauseVarsInit /\ TicketVarsInit /\ ContextVarsInit
    /\ EnableVarsInit


\* lock(), line 62: draw a ticket.
LockDraw(h) ==
    /\ lpc[h] = "idle"
    /\ lock.ticket < MaxTicket
    /\ lmy' = [lmy EXCEPT ![h] = lock.ticket]
    /\ lock' = FetchAddTicket(lock)
    /\ lpc' = [lpc EXCEPT ![h] = "spin"]
    /\ lspun' = [lspun EXCEPT ![h] = FALSE]
    /\ ltry' = [ltry EXCEPT ![h] = "none"]
    /\ UNCHANGED LockOthers

\* lock(), lines 65-67: one iteration of the spin loop that does not leave it.
LockSpinWait(h) ==
    /\ lpc[h] = "spin"
    /\ ~SpinDone(lock, lmy[h])
    /\ lspun' = [lspun EXCEPT ![h] = TRUE]
    /\ UNCHANGED ltry
    /\ UNCHANGED <<lock, lpc, lmy>>
    /\ UNCHANGED LockOthers

\* lock(), lines 65-83: the load that ends the spin loop; the guard is made.
LockSpinExit(h) ==
    /\ lpc[h] = "spin"
    /\ SpinDone(lock, lmy[h])
    /\ lpc' = [lpc EXCEPT ![h] = "held"]
    /\ UNCHANGED <<lock, lmy, lspun, ltry>>
    /\ UNCHANGED LockOthers

\* try_lock(), line 109: load `counter`.
TryLockLoad(h) ==
    /\ lpc[h] = "idle"
    /\ lock.ticket < MaxTicket
    /\ lmy' = [lmy EXCEPT ![h] = lock.counter]
    /\ lpc' = [lpc EXCEPT ![h] = "try"]
    /\ lspun' = [lspun EXCEPT ![h] = FALSE]
    /\ ltry' = [ltry EXCEPT ![h] = "none"]
    /\ UNCHANGED lock
    /\ UNCHANGED LockOthers

\* Mutant of TryLockErr: a failed try_lock has taken a ticket, as lock does.
TryLockErr_TakesTicket(l) == FetchAddTicket(l)

\* try_lock(), lines 111-117: a failed compare-exchange stores nothing, and
\* `return Err(token)` touches neither counter.
TryLockErr(l) == l

\* try_lock(), lines 111-133: the compare-exchange; Err(token) or Ok(guard).
\* A hart that is "idle" has its UpperLevel token, one that is "held" has
\* the guard and the LowerLevel token.
TryLockCas(h) ==
    /\ lpc[h] = "try"
    /\ IF TryLockCasOk(lock, lmy[h])
       THEN /\ lock' = TryLockCasStore(lock, lmy[h])
            /\ lpc' = [lpc EXCEPT ![h] = "held"]
            /\ ltry' = [ltry EXCEPT ![h] = "Ok"]
       ELSE /\ lock' = TryLockErr(lock)
            /\ lpc' = [lpc EXCEPT ![h] = "idle"]
            /\ ltry' = [ltry EXCEPT ![h] = "Err"]
    /\ UNCHANGED <<lmy, lspun>>
    /\ UNCHANGED LockOthers

\* TicketlockGuard::unlock, lines 177-191.
LockUnlock(h) ==
    /\ lpc[h] = "held"
    /\ lock' = GuardUnlock(lock)
    /\ lpc' = [lpc EXCEPT ![h] = "idle"]
    /\ ltry' = [ltry EXCEPT ![h] = "none"]
    /\ UNCHANGED <<lmy, lspun>>
    /\ UNCHANGED LockOthers

LockNext ==
    \E h \in Harts :
        \/ LockDraw(h)
        \/ LockSpinWait(h)
        \/ LockSpinExit(h)
        \/ TryLockLoad(h)
        \/ TryLockCas(h)
        \/ LockUnlock(h)

LockSpec == BootInit /\ [][LockNext]_vars

\* A hart that can leave the spin loop does, and a holder unlocks.
LockFairSpec ==
    /\ LockSpec
    /\ \A h \in Harts : WF_vars(LockSpinExit(h)) /\ WF_vars(LockUnlock(h))

\* The harts that hold a guard (and with it the `&mut T`).
LockHolders == {h \in Harts : lpc[h] = "held"}

\* C1: at most one guard obtained through lock/try_lock exists at any time.
C1_MutualExclusion == Cardinality(LockHolders) <= 1

\* C1 witness: a hart holds the guard while another one, whose spin loop has
\* iterated at least once, waits for it.
C1_Witness ==
    \E h, g \in Harts :
        /\ h # g
        /\ lpc[h] = "held"
        /\ lpc[g] = "spin"
        /\ lspun[g]

\* C5: ticket locks are FIFO and starvation-free.  FIFO: whenever a hart
\* obtains the guard, every hart still spinning holds a later ticket.
\* Starvation-free (under LockFairSpec, where every holder unlocks): a hart
\* that has drawn a ticket in lock() eventually obtains the guard.
C5_FifoStarvationFree ==
    /\ [][\A h \in Harts :
            (lpc[h] # "held" /\ lpc'[h] = "held") =>
                \A g \in Harts \ {h} : lpc[g] = "spin" => lmy[g] > lmy[h]]_vars
    /\ \A h \in Harts : (lpc[h] = "spin") ~> (lpc[h] = "held")

\* C5 witness: a hart obtained the guard after having waited, while another
\* hart that drew a later ticket is spinning behind it.
C5_Witness ==
    \E h, g \in Harts :
        /\ h # g
        /\ lpc[h] = "held"
        /\ lspun[h]
        /\ lpc[g] = "spin"
        /\ lmy[g] > lmy[h]

(***************************************************************************)
(* LevelSpec: each hart holds one level token and applies Level::enter and *)
(* Level::leave to it; `unsafe create()` mints a token of any level of the *)
(* hierarchy (as trap_handler, the locks and PerCore do).  A hart whose    *)
(* call panicked has stopped.                                              *)
(***************************************************************************)


\* Level::create() of a level of the hierarchy.
LevelCreate(h, X) ==
    /\ vtok[h] # "panic"
    /\ vtok' = [vtok EXCEPT ![h] = X]
    /\ vlast' = [vlast EXCEPT ![h] = [op |-> "create", from |-> X]]
    /\ UNCHANGED LevelOthers

\* Level::enter(self), level.rs lines 62-65.
LevelEnter(h) ==
    /\ vtok[h] # "panic"
    /\ vtok' = [vtok EXCEPT ![h] = LevelEnterResult(vtok[h])]
    /\ vlast' = [vlast EXCEPT ![h] = [op |-> "enter", from |-> vtok[h]]]
    /\ UNCHANGED LevelOthers

\* Level::leave(self), level.rs lines 68-71.
LevelLeave(h) ==
    /\ vtok[h] # "panic"
    /\ vtok' = [vtok EXCEPT ![h] = LevelLeaveResult(vtok[h])]
    /\ vlast' = [vlast EXCEPT ![h] = [op |-> "leave", from |-> vtok[h]]]
    /\ UNCHANGED LevelOthers

LevelNext ==
    \E h \in Harts :
        \/ \E X \in HierarchyLevels : LevelCreate(h, X)
        \/ LevelEnter(h)
        \/ LevelLeave(h)

LevelSpec == BootInit /\ [][LevelNext]_vars

\* C3: for every level X except the lowest, X.enter() succeeds and yields
\* the token of the level numbered level(X)-1; for every level except the
\* highest, X.leave() succeeds and yields the token of level(X)+1.
C3_EnterLeaveAdjacent ==
    \A h \in Harts :
        /\ (vlast[h].op = "enter" /\ level(vlast[h].from) # 0) =>
               /\ vtok[h] \in HierarchyLevels
               /\ level(vtok[h]) = level(vlast[h].from) - 1
        /\ (vlast[h].op = "leave" /\ level(vlast[h].from) # 7) =>
               /\ vtok[h] \in HierarchyLevels
               /\ level(vtok[h]) = level(vlast[h].from) + 1

(***************************************************************************)
(* IrqSpec: harts call IRQTicketlock::lock, ::try_lock and the guard's      *)
(* unlock on the kernel's IRQTicketlocks, nested last-in first-out, with    *)
(* interrupts enabled or disabled at the call.  A trap is delivered to a    *)
(* hart whenever its sstatus.SIE is 1; the hart then runs trap_handler,     *)
(* which takes IRQTicketlocks itself and ends in the todo!() whose panic    *)
(* parks the hart.  A call in progress is a frame                           *)
(*   lk   : the lock          kind : "lock" or "try"                        *)
(*   flag : the InterruptFlag saved by the call                             *)
(*   pre  : sstatus.SIE when the call began (for the properties)            *)
(*   my   : the local `ticket` / `counter`                                  *)
(*   ph   : "read" (sstatus read), "saved" (SIE cleared), "spin", "try",    *)
(*          "tryfail", "held" (guard returned), "unlocked" (inner lock      *)
(*          released, flag not yet restored)                                *)
(***************************************************************************)

IrqInit ==
    /\ LockVarsInit /\ LevelVarsInit /\ EpiVarsInit /\ KernelVarsInit
    /\ RegistryVarsInit /\ MemVarsInit /\ CpuVarsInit /\ PlicVarsInit
    /\ CauseVarsInit /\ TicketVarsInit /\ ContextVarsInit /\ EnableVarsInit
    /\ sie \in [HartPair -> BOOLEAN]
    /\ ictx = [h \in HartPair |-> "thread"]
    /\ ilock = [l \in IrqLocks |-> TicketlockNew]
    /\ istack = [h \in HartPair |-> << >>]
    /\ ilast = [h \in HartPair |-> IrqNoCall]

IrqTop(h) == istack[h][Len(istack[h])]

IrqSetTop(h, f) == [istack EXCEPT ![h] = [@ EXCEPT ![Len(@)] = f]]

IrqPop(h) == [istack EXCEPT ![h] = SubSeq(@, 1, Len(@) - 1)]

IrqPhase(h, ph) == IF istack[h] = << >> THEN FALSE ELSE IrqTop(h).ph = ph

\* The hart is running and not in the middle of a call.
IrqCanCall(h) ==
    /\ ictx[h] # "dead"
    /\ IF istack[h] = << >> THEN TRUE
       ELSE IrqTop(h).ph = "held"

\* lock() line 267 / try_lock() line 303, save_and_disable_interrupts lines
\* 667-672: read sstatus and keep its SIE bit as the flag.  A hart calls on
\* a lock it is not holding already.
IrqCallRead(h, l, k) ==
    /\ IrqCanCall(h)
    /\ Len(istack[h]) < MaxNest
    /\ \A i \in 1 .. Len(istack[h]) : istack[h][i].lk # l
    /\ ilock[l].ticket < MaxIrqTicket
    /\ istack' = [istack EXCEPT ![h] = Append(@,
           [lk |-> l, kind |-> k, flag |-> SaveFlag(sie[h]), pre |-> sie[h],
            my |-> 0, ph |-> "read"])]
    /\ ilast' = [ilast EXCEPT ![h] = IrqNoCall]
    /\ UNCHANGED <<sie, ictx, ilock>>
    /\ UNCHANGED IrqOthers

\* save_and_disable_interrupts lines 673-674: clear SIE and write sstatus.
IrqCallDisable(h) ==
    /\ ictx[h] # "dead"
    /\ IrqPhase(h, "read")
    /\ sie' = [sie EXCEPT ![h] = SieAfterSave(@)]
    /\ istack' = IrqSetTop(h, [IrqTop(h) EXCEPT !.ph = "saved"])
    /\ UNCHANGED <<ictx, ilock, ilast>>
    /\ UNCHANGED IrqOthers

\* IRQTicketlock::lock line 268 -> Ticketlock::lock line 62: draw a ticket.
IrqLockDraw(h) ==
    /\ ictx[h] # "dead"
    /\ IrqPhase(h, "saved") /\ IrqTop(h).kind = "lock"
    /\ LET l == IrqTop(h).lk IN
         /\ istack' = IrqSetTop(h, [IrqTop(h) EXCEPT !.my = ilock[l].ticket,
                                                     !.ph = "spin"])
         /\ ilock' = [ilock EXCEPT ![l] = FetchAddTicket(@)]
    /\ UNCHANGED <<sie, ictx, ilast>>
    /\ UNCHANGED IrqOthers

\* Ticketlock::lock lines 65-84: the spin loop ends, lock() returns the
\* IRQTicketlockGuard (lines 270-272).
IrqLockSpinExit(h) ==
    /\ ictx[h] # "dead"
    /\ IrqPhase(h, "spin")
    /\ SpinDone(ilock[IrqTop(h).lk], IrqTop(h).my)
    /\ istack' = IrqSetTop(h, [IrqTop(h) EXCEPT !.ph = "held"])
    /\ UNCHANGED <<sie, ictx, ilock, ilast>>
    /\ UNCHANGED IrqOthers

\* IRQTicketlock::try_lock line 305 -> Ticketlock::try_lock line 109.
IrqTryLoad(h) ==
    /\ ictx[h] # "dead"
    /\ IrqPhase(h, "saved") /\ IrqTop(h).kind = "try"
    /\ istack' = IrqSetTop(h, [IrqTop(h) EXCEPT
                                   !.my = ilock[IrqTop(h).lk].counter,
                                   !.ph = "try"])
    /\ UNCHANGED <<sie, ictx, ilock, ilast>>
    /\ UNCHANGED IrqOthers

\* Ticketlock::try_lock lines 111-134: the compare-exchange; Ok gives the
\* guard (try_lock lines 306, 313-315), Err goes to the restore of line 308.
IrqTryCas(h) ==
    /\ ictx[h] # "dead"
    /\ IrqPhase(h, "try")
    /\ LET l == IrqTop(h).lk
           c == IrqTop(h).my
       IN  IF TryLockCasOk(ilock[l], c)
           THEN /\ ilock' = [ilock EXCEPT ![l] = TryLockCasStore(@, c)]
                /\ istack' = IrqSetTop(h, [IrqTop(h) EXCEPT !.ph = "held"])
           ELSE /\ ilock' = ilock
                /\ istack' = IrqSetTop(h, [IrqTop(h) EXCEPT !.ph = "tryfail"])
    /\ UNCHANGED <<sie, ictx, ilast>>
    /\ UNCHANGED IrqOthers

\* IRQTicketlock::try_lock lines 307-310: restore_interrupts(flag), Err.
IrqTryFailRestore(h) ==
    /\ ictx[h] # "dead"
    /\ IrqPhase(h, "tryfail")
    /\ sie' = [sie EXCEPT ![h] = RestoreSie(IrqTop(h).flag)]
    /\ istack' = IrqPop(h)
    /\ ilast' = [ilast EXCEPT ![h] = [op |-> "tryfail",
                                      nested |-> Len(istack[h]) > 1]]
    /\ UNCHANGED <<ictx, ilock>>
    /\ UNCHANGED IrqOthers

\* IRQTicketlockGuard::unlock line 356 -> TicketlockGuard::unlock line 182.
IrqGuardUnlock(h) ==
    /\ ictx[h] # "dead"
    /\ IrqPhase(h, "held")
    /\ ilock' = [ilock EXCEPT ![IrqTop(h).lk] = GuardUnlock(@)]
    /\ istack' = IrqSetTop(h, [IrqTop(h) EXCEPT !.ph = "unlocked"])
    /\ UNCHANGED <<sie, ictx, ilast>>
    /\ UNCHANGED IrqOthers

\* IRQTicketlockGuard::unlock lines 357-358: restore_interrupts(self.flag).
IrqGuardRestore(h) ==
    /\ ictx[h] # "dead"
    /\ IrqPhase(h, "unlocked")
    /\ sie' = [sie EXCEPT ![h] = RestoreSie(IrqTop(h).flag)]
    /\ istack' = IrqPop(h)
    /\ ilast' = [ilast EXCEPT ![h] = [op |-> "unlock",
                                      nested |-> Len(istack[h]) > 1]]
    /\ UNCHANGED <<ictx, ilock>>
    /\ UNCHANGED IrqOthers

\* A trap is delivered: possible only while sstatus.SIE is 1.  The hardware
\* clears SIE and the hart enters trap_handler (lines 383-385).  A call it
\* interrupted between reading and writing sstatus is dropped: trap_handler
\* does not return to it (IrqTrapTodo).
IrqTrap(h) ==
    /\ ictx[h] = "thread"
    /\ sie[h]
    /\ sie' = [sie EXCEPT ![h] = FALSE]
    /\ ictx' = [ictx EXCEPT ![h] = "trap"]
    /\ istack' = IF IrqPhase(h, "read") THEN IrqPop(h) ELSE istack
    /\ UNCHANGED <<ilock, ilast>>
    /\ UNCHANGED IrqOthers

\* trap_handler line 426, `todo!()`: the panic handler (main.rs lines 25-45)
\* ends in cpu::die(), which disables interrupts and waits forever.
IrqTrapTodo(h) ==
    /\ ictx[h] = "trap"
    /\ istack[h] = << >>
    /\ sie' = [sie EXCEPT ![h] = FALSE]
    /\ ictx' = [ictx EXCEPT ![h] = "dead"]
    /\ UNCHANGED <<ilock, istack, ilast>>
    /\ UNCHANGED IrqOthers

IrqNext ==
    \E h \in HartPair :
        \/ \E l \in IrqLocks, k \in {"lock", "try"} : IrqCallRead(h, l, k)
        \/ IrqCallDisable(h)
        \/ IrqLockDraw(h)
        \/ IrqLockSpinExit(h)
        \/ IrqTryLoad(h)
        \/ IrqTryCas(h)
        \/ IrqTryFailRestore(h)
        \/ IrqGuardUnlock(h)
        \/ IrqGuardRestore(h)
        \/ IrqTrap(h)
        \/ IrqTrapTodo(h)

IrqSpec == IrqInit /\ [][IrqNext]_vars

\* The calls of hart h that are inside the hold interval of an IRQTicketlock:
\* SIE has been cleared and the inner lock has not yet been released.
IrqHoldFrames(h) ==
    {i \in 1 .. Len(istack[h]) :
        istack[h][i].ph \in {"saved", "spin", "try", "held"}}

\* C6: while a hart is between the clearing of SIE by IRQTicketlock::lock or
\* ::try_lock and the release of the inner lock by the guard's unlock,
\* sstatus.SIE is 0 on that hart, and no trap is delivered to it (it does
\* not leave the context it is executing in).
C6_SieClearWhileHeld ==
    /\ [](\A h \in HartPair : IrqHoldFrames(h) # {} => ~sie[h])
    /\ [][\A h \in HartPair : IrqHoldFrames(h) # {} => ictx'[h] = ictx[h]]_vars

\* A hart that had interrupts enabled holds two IRQTicketlock guards, the
\* outer from lock() and the inner from try_lock().
C6_Witness ==
    \E h \in HartPair :
        /\ Len(istack[h]) = 2
        /\ istack[h][1].ph = "held" /\ istack[h][1].kind = "lock"
        /\ istack[h][1].pre
        /\ istack[h][2].ph = "held" /\ istack[h][2].kind = "try"

\* C7: when an IRQTicketlockGuard is released (unlock has restored the
\* flag), or try_lock fails, sstatus.SIE of the hart is the value it had when
\* the matching lock / try_lock call began; nested calls included.
C7_RestoreExact ==
    [][\A h \in HartPair :
          (/\ Len(istack'[h]) < Len(istack[h])
           /\ IrqTop(h).ph \in {"unlocked", "tryfail"})
          => sie'[h] = IrqTop(h).pre]_vars

\* One hart has released a nested guard; another, running with interrupts
\* enabled, has had a try_lock fail and has them enabled again.
C7_Witness ==
    \E h, g \in HartPair :
        /\ h # g
        /\ ilast[h].op = "unlock" /\ ilast[h].nested
        /\ ilast[g].op = "tryfail" /\ sie[g] /\ ictx[g] = "thread"

(***************************************************************************)
(* EpiSpec: on each hart, kernel code calls epilogue::try_enter and, with   *)
(* the token it got, epilogue::leave; it enables interrupts as main.rs      *)
(* does, and at Prologue level (interrupts off) it may mark a trap pending  *)
(* with TrapHandlers::enqueue.  A trap is delivered whenever sstatus.SIE is *)
(* 1: the hart runs trap_handler, whose prologue may request an epilogue,   *)
(* and which ends in the todo!() whose panic parks the hart.  Each action   *)
(* is one step of the code between two points where a trap can arrive.      *)
(***************************************************************************)


EpiStep(h, from, to) ==
    /\ epc[h] = from
    /\ epc' = [epc EXCEPT ![h] = to]

\* main.rs lines 155-158 (and 192-195): enable interrupts.
EpiEnableInterrupts(h) ==
    /\ EpiStep(h, "idle", "idle")
    /\ ~esie[h]
    /\ esie' = [esie EXCEPT ![h] = TRUE]
    /\ UNCHANGED <<EPILOGUE_STATE, pending, eloc, etok>>
    /\ UNCHANGED EpiOthers

\* TrapHandlers::enqueue called by kernel code that runs at Prologue level.
EpiEnqueue(h, trap) ==
    /\ EpiStep(h, "idle", "idle")
    /\ ~esie[h]
    /\ pending' = [pending EXCEPT ![h] = enqueue(@, trap)]
    /\ UNCHANGED <<EPILOGUE_STATE, esie, eloc, etok>>
    /\ UNCHANGED EpiOthers

\* try_enter line 20: `let interrupt_enabled = cpu::interrupts_enabled()`.
TryEnterRead(h) ==
    /\ EpiStep(h, "idle", "te_disable")
    /\ eloc' = [eloc EXCEPT ![h].interrupt_enabled = esie[h]]
    /\ UNCHANGED <<EPILOGUE_STATE, pending, esie, etok>>
    /\ UNCHANGED EpiOthers

\* try_enter line 21: `cpu::disable_interrupts()`.
TryEnterDisable(h) ==
    /\ EpiStep(h, "te_disable", "te_cas")
    /\ esie' = [esie EXCEPT ![h] = FALSE]
    /\ UNCHANGED <<EPILOGUE_STATE, pending, eloc, etok>>
    /\ UNCHANGED EpiOthers

\* try_enter lines 24-26: compare_exchange(false, true) on the hart's flag.
TryEnterCas(h) ==
    /\ EpiStep(h, "te_cas", "te_return")
    /\ LET i == EpilogueIndex(h) IN
         /\ eloc' = [eloc EXCEPT ![h].success = ~EPILOGUE_STATE[i]]
         /\ EPILOGUE_STATE' = [EPILOGUE_STATE EXCEPT ![i] = TRUE]
    /\ UNCHANGED <<pending, esie, etok>>
    /\ UNCHANGED EpiOthers

\* try_enter lines 29-38: re-enable interrupts if they were enabled, return
\* Some(LevelEpilogue) or None.
TryEnterReturn(h) ==
    /\ EpiStep(h, "te_return", "idle")
    /\ esie' = [esie EXCEPT ![h] = eloc[h].interrupt_enabled]
    /\ etok' = [etok EXCEPT ![h] = IF eloc[h].success THEN @ + 1 ELSE @]
    /\ eloc' = [eloc EXCEPT ![h] = EpiNoLocals]
    /\ UNCHANGED <<EPILOGUE_STATE, pending>>
    /\ UNCHANGED EpiOthers

\* leave line 44, save_and_disable_interrupts lines 667-672: the caller
\* gives up its LevelEpilogue token; read sstatus into the flag.
LeaveSave(h) ==
    /\ EpiStep(h, "idle", "lv_disable")
    /\ etok[h] > 0
    /\ etok' = [etok EXCEPT ![h] = @ - 1]
    /\ eloc' = [eloc EXCEPT ![h].interrupt_flag = SaveFlag(esie[h])]
    /\ UNCHANGED <<EPILOGUE_STATE, pending, esie>>
    /\ UNCHANGED EpiOthers

\* save_and_disable_interrupts lines 673-674: clear SIE.
LeaveDisable(h) ==
    /\ EpiStep(h, "lv_disable", "lv_dequeue")
    /\ esie' = [esie EXCEPT ![h] = SieAfterSave(@)]
    /\ UNCHANGED <<EPILOGUE_STATE, pending, eloc, etok>>
    /\ UNCHANGED EpiOthers

\* leave line 48: TrapHandlers::dequeue on the hart's pending arrays; Some
\* enters the loop body, None leaves the loop.
LeaveDequeue(h) ==
    /\ epc[h] = "lv_dequeue"
    /\ LET d == dequeue(pending[h]) IN
         /\ pending' = [pending EXCEPT ![h] = d.pending]
         /\ eloc' = [eloc EXCEPT ![h].trap = d.trap]
         /\ epc' = [epc EXCEPT ![h] = IF d.trap = NoTrap THEN "lv_cas"
                                      ELSE "lv_enable"]
    /\ UNCHANGED <<EPILOGUE_STATE, esie, etok>>
    /\ UNCHANGED EpiOthers

\* leave lines 50-58: get the handler, enable interrupts, call its epilogue.
LeaveEnable(h) ==
    /\ EpiStep(h, "lv_enable", "lv_epilogue")
    /\ esie' = [esie EXCEPT ![h] = SieAfterEnable(@)]
    /\ eloc' = [eloc EXCEPT ![h].running = eloc[h].trap, ![h].trap = NoTrap]
    /\ UNCHANGED <<EPILOGUE_STATE, pending, etok>>
    /\ UNCHANGED EpiOthers

\* leave line 58: handler.epilogue returns.
LeaveEpilogueReturn(h) ==
    /\ EpiStep(h, "lv_epilogue", "lv_redisable")
    /\ eloc' = [eloc EXCEPT ![h].running = NoTrap, ![h].done = eloc[h].running]
    /\ UNCHANGED <<EPILOGUE_STATE, pending, esie, etok>>
    /\ UNCHANGED EpiOthers

\* leave line 61: `cpu::disable_interrupts()`, back to the loop head.
LeaveRedisable(h) ==
    /\ EpiStep(h, "lv_redisable", "lv_dequeue")
    /\ esie' = [esie EXCEPT ![h] = FALSE]
    /\ UNCHANGED <<EPILOGUE_STATE, pending, eloc, etok>>
    /\ UNCHANGED EpiOthers

\* leave lines 65-67: compare_exchange(true, false).unwrap() on the hart's
\* flag; the unwrap panics when the flag was not set.
LeaveCas(h) ==
    /\ epc[h] = "lv_cas"
    /\ LET i == EpilogueIndex(h) IN
         IF EPILOGUE_STATE[i]
         THEN /\ EPILOGUE_STATE' = [EPILOGUE_STATE EXCEPT ![i] = FALSE]
              /\ epc' = [epc EXCEPT ![h] = "lv_restore"]
         ELSE /\ EPILOGUE_STATE' = EPILOGUE_STATE
              /\ epc' = [epc EXCEPT ![h] = "dead"]
    /\ UNCHANGED <<pending, esie, eloc, etok>>
    /\ UNCHANGED EpiOthers

\* leave line 70: restore_interrupts(interrupt_flag).
LeaveRestore(h) ==
    /\ EpiStep(h, "lv_restore", "idle")
    /\ esie' = [esie EXCEPT ![h] = RestoreSie(eloc[h].interrupt_flag)]
    /\ eloc' = [eloc EXCEPT ![h] = EpiNoLocals]
    /\ UNCHANGED <<EPILOGUE_STATE, pending, etok>>
    /\ UNCHANGED EpiOthers

\* A trap is delivered (only while SIE is 1): the hardware clears SIE and
\* the hart enters trap_handler, lines 383-398, which reads the cause.  An
\* external interrupt is first claimed at the controller (line 400), any
\* other trap goes to its handler (lines 402-409).  trap_handler does not
\* return to what it interrupted (TrapTodo): of the interrupted frame only
\* the epilogue that was executing is kept.
TrapEnter(h, trap) ==
    /\ epc[h] \notin TrapPcs
    /\ esie[h]
    /\ esie' = [esie EXCEPT ![h] = FALSE]
    /\ epc' = [epc EXCEPT ![h] = IF trap = ExternalInterrupt THEN "source"
                                 ELSE "prologue"]
    /\ eloc' = [eloc EXCEPT ![h] = [EpiNoLocals EXCEPT
                                       !.running = eloc[h].running,
                                       !.trap = trap,
                                       !.external = (trap = ExternalInterrupt)]]
    /\ UNCHANGED <<EPILOGUE_STATE, pending, etok>>
    /\ UNCHANGED EpiOthers

\* The panic handler (main.rs lines 25-45) ends in cpu::die(), which
\* disables interrupts and waits forever.  Of the locals of the hart only
\* the trap it was handling is remembered.
TrapPanic(h) ==
    /\ epc' = [epc EXCEPT ![h] = "dead"]
    /\ esie' = [esie EXCEPT ![h] = FALSE]
    /\ eloc' = [eloc EXCEPT ![h] = [EpiNoLocals EXCEPT !.trap = eloc[h].trap]]
    /\ UNCHANGED <<EPILOGUE_STATE, pending, etok, plicVars>>

\* InterruptController::source, intc.rs lines 227-241: lookup_hart_id of
\* the current hart (line 229, a panic ends the handler before the lock is
\* taken); then, inside the IRQTicketlock, which saves the flag, clears SIE
\* and restores the flag on unlock, PLIC::claim (lines 148-168) reads the
\* claim register of the hart's context: 0 is a panic, another id is in
\* service from then on and names the interrupt.
TrapSource(h, interrupt) ==
    /\ epc[h] = "source"
    /\ LET hart_id == lookup_hart_id(h, RegisteredHarts) IN
         IF hart_id = Panicked
         THEN TrapPanic(h)
         ELSE IF interrupt.index = 0
         THEN TrapPanic(h)
         ELSE /\ epc' = [epc EXCEPT ![h] = "prologue"]
              /\ eloc' = [eloc EXCEPT ![h].trap = interrupt]
              /\ esie' = [esie EXCEPT ![h] = RestoreSie(SaveFlag(esie[h]))]
              /\ plic_claimed' = [plic_claimed EXCEPT ![hart_id] =
                                     @ \cup {interrupt.index}]
              /\ UNCHANGED <<EPILOGUE_STATE, pending, etok, plic_complete>>
    /\ UNCHANGED EpiTrapOthers

\* trap_handler lines 408-411: the handler of the trap is looked up and its
\* prologue runs and says whether it needs an epilogue.
TrapPrologue(h, epilogue_required) ==
    /\ EpiStep(h, "prologue", "eoi")
    /\ eloc' = [eloc EXCEPT ![h].success = epilogue_required]
    /\ UNCHANGED <<EPILOGUE_STATE, pending, esie, etok>>
    /\ UNCHANGED EpiOthers

\* trap_handler lines 414-417: for every interrupt, external or not,
\* InterruptController::end_of_interrupt (intc.rs lines 244-268): the lock
\* is taken, lookup_hart_id of the current hart (line 251) panics or names
\* the context, the index of the interrupt is written to the complete
\* register of that context (lines 258-263), the lock is released.  For an
\* exception nothing is done.
TrapEndOfInterrupt(h) ==
    /\ epc[h] = "eoi"
    /\ IF eloc[h].trap.kind = "Interrupt"
       THEN LET hart_id == lookup_hart_id(h, RegisteredHarts)
                id == eloc[h].trap.index
            IN IF hart_id = Panicked
               THEN TrapPanic(h)
               ELSE /\ epc' = [epc EXCEPT ![h] = "enqueue"]
                    /\ esie' = [esie EXCEPT ![h] = RestoreSie(SaveFlag(esie[h]))]
                    /\ plic_complete' = [plic_complete EXCEPT ![hart_id] =
                          Append(@, [id |-> id, by |-> h,
                                     claimed |-> id \in plic_claimed[hart_id]])]
                    /\ plic_claimed' = [plic_claimed EXCEPT ![hart_id] = @ \ {id}]
                    /\ UNCHANGED <<EPILOGUE_STATE, pending, eloc, etok>>
       ELSE /\ epc' = [epc EXCEPT ![h] = "enqueue"]
            /\ UNCHANGED <<EPILOGUE_STATE, pending, esie, eloc, etok, plicVars>>
    /\ UNCHANGED EpiTrapOthers

\* trap_handler lines 420-423: if the prologue asked for an epilogue the
\* trap is enqueued.
TrapEnqueue(h) ==
    /\ EpiStep(h, "enqueue", "todo")
    /\ pending' = [pending EXCEPT ![h] =
                      IF eloc[h].success THEN enqueue(@, eloc[h].trap) ELSE @]
    /\ eloc' = [eloc EXCEPT ![h].enqueued = eloc[h].success]
    /\ UNCHANGED <<EPILOGUE_STATE, esie, etok>>
    /\ UNCHANGED EpiOthers

\* trap_handler line 426, `todo!("Execute pending epilogues")`: the panic
\* handler (main.rs lines 25-45) ends in cpu::die(); the locals of a parked
\* hart are gone.
TrapTodo(h) ==
    /\ EpiStep(h, "todo", TrapHandlerEnd)
    /\ esie' = [esie EXCEPT ![h] = FALSE]
    /\ eloc' = IF TrapHandlerEnd = "dead"
               THEN [eloc EXCEPT ![h] = EpiNoLocals]
               ELSE eloc
    /\ UNCHANGED <<EPILOGUE_STATE, pending, etok>>
    /\ UNCHANGED EpiOthers

EpiNext ==
    \E h \in HartPair :
        \/ EpiEnableInterrupts(h)
        \/ \E trap \in Traps : EpiEnqueue(h, trap)
        \/ TryEnterRead(h)
        \/ TryEnterDisable(h)
        \/ TryEnterCas(h)
        \/ TryEnterReturn(h)
        \/ LeaveSave(h)
        \/ LeaveDisable(h)
        \/ LeaveDequeue(h)
        \/ LeaveEnable(h)
        \/ LeaveEpilogueReturn(h)
        \/ LeaveRedisable(h)
        \/ LeaveCas(h)
        \/ LeaveRestore(h)
        \/ \E trap \in Traps \cup {ExternalInterrupt} : TrapEnter(h, trap)
        \/ \E interrupt \in Interrupts : TrapSource(h, interrupt)
        \/ \E epilogue_required \in BOOLEAN : TrapPrologue(h, epilogue_required)
        \/ TrapEndOfInterrupt(h)
        \/ TrapEnqueue(h)
        \/ TrapTodo(h)

EpiSpec == BootInit /\ [][EpiNext]_vars

\* The code of a call in progress and of trap_handler keeps executing.
EpiFairSpec ==
    /\ EpiSpec
    /\ \A h \in HartPair :
          /\ WF_vars(LeaveDisable(h)) /\ WF_vars(LeaveDequeue(h))
          /\ WF_vars(LeaveEnable(h)) /\ WF_vars(LeaveEpilogueReturn(h))
          /\ WF_vars(LeaveRedisable(h)) /\ WF_vars(LeaveCas(h))
          /\ WF_vars(LeaveRestore(h))
          /\ WF_vars(\E i \in Interrupts : TrapSource(h, i))
          /\ WF_vars(\E r \in BOOLEAN : TrapPrologue(h, r))
          /\ WF_vars(TrapEndOfInterrupt(h)) /\ WF_vars(TrapEnqueue(h))
          /\ WF_vars(TrapTodo(h))

\* C8: on a hart, try_enter returns Some only while the hart's flag is
\* clear, so at most one LevelEpilogue token is out per hart until leave
\* clears the flag; with the flag set try_enter returns None; and the
\* compare-exchange of try_enter neither reads nor writes another hart's flag.
C8_TryEnterOncePerHart ==
    /\ [](\A h \in HartPair :
            etok[h] + (IF epc[h] = "te_return" /\ eloc[h].success THEN 1 ELSE 0)
               <= (IF EPILOGUE_STATE[h] THEN 1 ELSE 0))
    /\ [][\A h \in HartPair :
            (epc[h] = "te_cas" /\ epc'[h] = "te_return") =>
               /\ eloc'[h].success = ~EPILOGUE_STATE[h]
               /\ \A g \in HartPair \ {h} :
                     EPILOGUE_STATE'[g] = EPILOGUE_STATE[g]]_vars

\* A hart that holds its token is returning None from a second try_enter,
\* while the other hart has got its own token.
C8_Witness ==
    \E h, g \in HartPair :
        /\ h # g
        /\ etok[h] = 1 /\ epc[h] = "te_return" /\ ~eloc[h].success
        /\ etok[g] = 1

\* C9: a handler epilogue starts on a hart only when no epilogue that was
\* started on that hart is still running (interrupted ones included).
C9_OneEpiloguePerHart ==
    [][\A h \in HartPair :
          (epc'[h] = "lv_epilogue" /\ epc[h] # "lv_epilogue")
          => eloc[h].running = NoTrap]_vars

\* A trap arrived on a hart while an epilogue was executing there, and its
\* prologue requested an epilogue, which is pending and has not started.
C9_Witness ==
    \E h \in HartPair :
        /\ epc[h] = "todo"
        /\ eloc[h].running # NoTrap
        /\ eloc[h].success
        /\ pending[h] = enqueue(pending[h], eloc[h].trap)

\* C10: when a prologue has requested an epilogue, the epilogue of that trap
\* eventually executes on the hart, and every trap entry eventually returns
\* to what it interrupted.
C10_RequestedEpilogueRuns ==
    \A h \in HartPair :
        /\ \A trap \in Traps :
              (epc[h] = "todo" /\ eloc[h].success /\ eloc[h].trap = trap)
                 ~> (epc[h] = "lv_epilogue" /\ eloc[h].running = trap)
        /\ (epc[h] = "prologue") ~> (epc[h] \notin TrapPcs)

\* A bit of the pending arrays of one hart.
IsPending(p, trap) ==
    IF trap.kind = "Interrupt" THEN trap.index \in p.interrupts
    ELSE trap.index \in p.exceptions

\* The loop of leave taken by itself: when leave clears the in-progress flag
\* of the hart, no pending bit of the hart is set and no dequeued trap is
\* left over; a pending bit is only ever cleared by the dequeue of leave,
\* which hands the trap to the loop body, and the loop body runs the
\* epilogue of exactly that trap.
LeaveDrainsAll ==
    /\ [][\A h \in HartPair :
            (epc[h] = "lv_cas" /\ epc'[h] = "lv_restore") =>
               /\ \A trap \in Traps : ~IsPending(pending[h], trap)
               /\ eloc[h].trap = NoTrap /\ eloc[h].running = NoTrap]_vars
    /\ [][\A h \in HartPair : \A trap \in Traps :
            (IsPending(pending[h], trap) /\ ~IsPending(pending'[h], trap)) =>
               /\ epc[h] = "lv_dequeue" /\ epc'[h] = "lv_enable"
               /\ eloc'[h].trap = trap]_vars
    /\ [][\A h \in HartPair :
            (epc[h] = "lv_enable" /\ epc'[h] # "lv_enable") =>
               /\ epc'[h] = "lv_epilogue"
               /\ eloc'[h].running = eloc[h].trap]_vars

\* leave has cleared the flag of a hart after its loop ran the epilogue of
\* a pending exception (the last one dequeued when both kinds were pending).
LeaveDrainedException ==
    \E h \in HartPair :
        /\ epc[h] = "lv_restore"
        /\ ~EPILOGUE_STATE[h]
        /\ eloc[h].done \in Exceptions

\* C11: a pending bit that a prologue adds on a hart while an epilogue is
\* executing there is dequeued, its epilogue is run, and after that leave
\* clears the in-progress flag of the hart with no pending bit set.
C11_AddedBitsDrainedBeforeExit ==
    \A h \in HartPair : \A trap \in Traps :
        (/\ epc[h] = "todo" /\ eloc[h].running # NoTrap
         /\ eloc[h].success /\ eloc[h].trap = trap
         /\ IsPending(pending[h], trap))
        ~> (/\ epc[h] = "lv_restore"
            /\ eloc[h].done # NoTrap
            /\ \A t \in Traps : ~IsPending(pending[h], t))

\* C12: from trap entry, across the call of InterruptController::source,
\* until the prologue has returned, sstatus.SIE of the hart is 0; and a
\* handler epilogue called by the loop of leave starts with SIE = 1.
C12_PrologueSieOffEpilogueSieOn ==
    /\ [](\A h \in HartPair :
            epc[h] \in {"source", "prologue"} => ~esie[h])
    /\ [][\A h \in HartPair :
            (epc'[h] = "lv_epilogue" /\ epc[h] # "lv_epilogue") => esie'[h]]_vars

\* One hart is in the prologue of an interrupt while the other executes an
\* epilogue with interrupts enabled.
C12_Witness ==
    \E h, g \in HartPair :
        /\ epc[h] = "prologue" /\ eloc[h].trap \in Interrupts
        /\ epc[g] = "lv_epilogue" /\ esie[g]

\* C27: when trap_handler is through with a trap on a hart, the pending
\* bit of the trap in the hart's pending array has been set by this trap if
\* and only if the prologue of its handler returned true.
C27_PendingBitIffPrologueTrue ==
    [][\A h \in HartPair :
          (epc[h] \in {"eoi", "enqueue"} /\ epc'[h] \in {"todo", "dead"}) =>
             (eloc[h].success <=>
                 (eloc'[h].enqueued /\ IsPending(pending'[h], eloc[h].trap)))
      ]_vars

\* What holds of the traps with which trap_handler gets as far as its
\* todo!(): the bit is set by the trap iff the prologue returned true.
EnqueueIffPrologueTrue ==
    [][\A h \in HartPair :
          (epc[h] = "enqueue" /\ epc'[h] = "todo") =>
             /\ eloc[h].trap \in Exceptions
             /\ eloc[h].success <=>
                   (eloc'[h].enqueued /\ IsPending(pending'[h], eloc[h].trap))
             /\ ~eloc[h].success => pending'[h] = pending[h]
      ]_vars

\* trap_handler has set the pending bit of an exception whose prologue
\* returned true.
ExceptionEnqueued ==
    \E h \in HartPair :
        /\ epc[h] = "todo" /\ eloc[h].trap \in Exceptions
        /\ eloc[h].success /\ eloc[h].enqueued
        /\ IsPending(pending[h], eloc[h].trap)

\* The writes to the complete register of its context that hart h made.
CompleteWrites(h) ==
    {plic_complete[h][k] : k \in 1 .. Len(plic_complete[h])}

\* C28: for every trap that is an interrupt, once the prologue has returned
\* trap_handler sends the end of interrupt: the id of the interrupt is
\* written to the complete register of the hart's context; and the id
\* written for an external interrupt is the one the claim returned there.
C28_InterruptGetsEndOfInterrupt ==
    /\ \A h \in HartPair : \A i \in Interrupts :
          (epc[h] = "eoi" /\ eloc[h].trap = i)
             ~> (\E w \in CompleteWrites(h) : w.id = i.index /\ w.by = h)
    /\ [](\A h \in HartPair : \A w \in CompleteWrites(h) :
             eloc[w.by].external => w.claimed)

CompleteWritten ==
    \E h \in HartPair : plic_complete[h] # << >>

\* An interrupt has been claimed from the controller.
InterruptClaimed ==
    \E h \in HartPair : plic_claimed[h] # {}

\* The positions at which a hart has a LevelPrologue token in hand: in
\* trap_handler from its first line on (handler_interface.rs line 385), and
\* in leave from the return of save_and_disable_interrupts (epilogue.rs
\* line 44) through the body of the loop, where the token of the dequeue
\* is kept in `epilogue_token` (line 51) until the next dequeue takes it.
HoldsPrologueToken(h) ==
    epc[h] \in {"source", "prologue", "eoi", "enqueue",
                "lv_dequeue", "lv_enable", "lv_epilogue", "lv_redisable"}

\* The positions right before TrapHandlers::enqueue and
\* TrapHandlers::dequeue.
AtPendingAccess(h) == epc[h] \in {"enqueue", "lv_dequeue"}

\* C33: a hart that is about to enqueue or dequeue has sstatus.SIE = 0, no
\* trap is delivered to a hart at such a position, and a hart that has a
\* LevelPrologue token in hand has sstatus.SIE = 0.
C33_PrologueTokenMeansMasked ==
    /\ [](\A h \in HartPair : AtPendingAccess(h) => ~esie[h])
    /\ [][\A h \in HartPair :
            AtPendingAccess(h) => ~(epc'[h] \in {"source", "prologue"}
                                      /\ epc'[h] # epc[h])]_vars
    /\ [](\A h \in HartPair : HoldsPrologueToken(h) => ~esie[h])

\* The part of C33 about the arrays themselves: every enqueue and dequeue
\* is made with SIE = 0 and is not interrupted.
PendingAccessMasked ==
    /\ [](\A h \in HartPair : AtPendingAccess(h) => ~esie[h])
    /\ [][\A h \in HartPair :
            AtPendingAccess(h) => ~(epc'[h] \in {"source", "prologue"}
                                      /\ epc'[h] # epc[h])]_vars

\* A hart is about to dequeue, and one is about to enqueue.
AboutToDequeue == \E h \in HartPair : epc[h] = "lv_dequeue"

AboutToEnqueue == \E h \in HartPair : epc[h] = "enqueue"

(***************************************************************************)
(* KernelSpec: each hart runs the kernel's lock-taking paths one after the  *)
(* other with interrupts enabled; a trap is delivered whenever SIE is 1 and *)
(* the hart then runs trap_handler's path, after which the todo!() parks    *)
(* it, with the guards it holds.  Plain locks go draw - spin - unlock; the  *)
(* IRQTicketlocks go save - draw - spin - unlock - restore.                 *)
(***************************************************************************)


KDone(h) == kprog[h].ip > Len(kprog[h].path)

KInstr(h) == kprog[h].path[kprog[h].ip]

KIsIrq(l) == LockTypeOf(l) = "IRQTicketlock"

\* The hart is before instruction `op`, in phase `ph` of it.
KAt(h, op, ph) ==
    /\ kctx[h] # "dead"
    /\ ~KDone(h)
    /\ KInstr(h).op = op
    /\ kprog[h].ph = ph

KAdvance(h) == [kprog EXCEPT ![h].ip = @ + 1, ![h].ph = "run"]

\* Kernel code enters one of its paths.
KStart(h, path) ==
    /\ kctx[h] = "thread"
    /\ KDone(h)
    /\ kprog' = [kprog EXCEPT ![h] = [path |-> path, ip |-> 1, ph |-> "run", my |-> 0]]
    /\ UNCHANGED <<klock, ksie, kctx, kheld>>
    /\ UNCHANGED KernelOthers

\* IRQTicketlock::lock line 267: save_and_disable_interrupts.
KSave(h) ==
    /\ KAt(h, "lock", "run")
    /\ KIsIrq(KInstr(h).lk)
    /\ kheld' = [kheld EXCEPT ![h] = Append(@,
          [lk |-> KInstr(h).lk, flag |-> SaveFlag(ksie[h]), got |-> FALSE])]
    /\ ksie' = [ksie EXCEPT ![h] = SieAfterSave(@)]
    /\ kprog' = [kprog EXCEPT ![h].ph = "saved"]
    /\ UNCHANGED <<klock, kctx>>
    /\ UNCHANGED KernelOthers

\* Ticketlock::lock line 62: draw a ticket.
KDraw(h) ==
    /\ ~KDone(h)
    /\ LET l == KInstr(h).lk IN
         /\ IF KIsIrq(l) THEN KAt(h, "lock", "saved") ELSE KAt(h, "lock", "run")
         /\ klock[l].ticket < MaxKernelTicket
         /\ kprog' = [kprog EXCEPT ![h].my = klock[l].ticket, ![h].ph = "spin"]
         /\ klock' = [klock EXCEPT ![l] = FetchAddTicket(@)]
    /\ UNCHANGED <<ksie, kctx, kheld>>
    /\ UNCHANGED KernelOthers

\* Ticketlock::lock lines 65-84: the spin loop ends, the guard is returned.
KAcquire(h) ==
    /\ KAt(h, "lock", "spin")
    /\ LET l == KInstr(h).lk IN
         /\ SpinDone(klock[l], kprog[h].my)
         /\ kheld' = [kheld EXCEPT ![h] =
               IF KIsIrq(l) THEN [@ EXCEPT ![Len(@)].got = TRUE]
               ELSE Append(@, [lk |-> l, flag |-> FALSE, got |-> TRUE])]
    /\ kprog' = KAdvance(h)
    /\ UNCHANGED <<klock, ksie, kctx>>
    /\ UNCHANGED KernelOthers

\* TicketlockGuard::unlock line 182; for an IRQTicketlockGuard the restore
\* of the flag follows (KRestore).
KUnlock(h) ==
    /\ KAt(h, "unlock", "run")
    /\ LET l == KInstr(h).lk IN
         /\ klock' = [klock EXCEPT ![l] = GuardUnlock(@)]
         /\ IF KIsIrq(l)
            THEN /\ kprog' = [kprog EXCEPT ![h].ph = "unlocked"]
                 /\ kheld' = [kheld EXCEPT ![h] = [@ EXCEPT ![Len(@)].got = FALSE]]
            ELSE /\ kprog' = KAdvance(h)
                 /\ kheld' = [kheld EXCEPT ![h] = SubSeq(@, 1, Len(@) - 1)]
    /\ UNCHANGED <<ksie, kctx>>
    /\ UNCHANGED KernelOthers

\* IRQTicketlockGuard::unlock line 357: restore_interrupts(self.flag).
KRestore(h) ==
    /\ KAt(h, "unlock", "unlocked")
    /\ ksie' = [ksie EXCEPT ![h] = RestoreSie(kheld[h][Len(kheld[h])].flag)]
    /\ kheld' = [kheld EXCEPT ![h] = SubSeq(@, 1, Len(@) - 1)]
    /\ kprog' = KAdvance(h)
    /\ UNCHANGED <<klock, kctx>>
    /\ UNCHANGED KernelOthers

\* A trap is delivered (only while SIE is 1): the hardware clears SIE and
\* the hart runs trap_handler; what it interrupted keeps its guards and does
\* not continue.
KTrap(h, path) ==
    /\ kctx[h] = "thread"
    /\ ksie[h]
    /\ ksie' = [ksie EXCEPT ![h] = FALSE]
    /\ kctx' = [kctx EXCEPT ![h] = "trap"]
    /\ kprog' = [kprog EXCEPT ![h] = [path |-> path, ip |-> 1, ph |-> "run", my |-> 0]]
    /\ UNCHANGED <<klock, kheld>>
    /\ UNCHANGED KernelOthers

\* trap_handler line 426, todo!(), or the panic of lookup_hart_id: the hart
\* is parked with the guards it holds.
KTodo(h) ==
    /\ kctx[h] = "trap"
    /\ KDone(h)
    /\ kctx' = [kctx EXCEPT ![h] = "dead"]
    /\ UNCHANGED <<klock, ksie, kprog, kheld>>
    /\ UNCHANGED KernelOthers

KernelNext ==
    \E h \in HartPair :
        \/ \E path \in ThreadPaths : KStart(h, path)
        \/ KSave(h)
        \/ KDraw(h)
        \/ KAcquire(h)
        \/ KUnlock(h)
        \/ KRestore(h)
        \/ \E path \in TrapPaths : KTrap(h, path)
        \/ KTodo(h)

KernelSpec == BootInit /\ [][KernelNext]_vars

\* The hart is in the spin loop of lock() and its ticket is not served.
KSpinning(h) ==
    /\ KAt(h, "lock", "spin")
    /\ ~SpinDone(klock[KInstr(h).lk], kprog[h].my)

\* The hart has a guard of lock l.
KHolds(h, l) == \E i \in 1 .. Len(kheld[h]) : kheld[h][i].lk = l /\ kheld[h][i].got

\* C2: there is no nonempty set of harts in which every hart spins on a
\* ticket lock that is held by a hart of the set (a hart spinning on a lock
\* it holds itself included).
C2_NoWaitForCycle ==
    \A S \in SUBSET HartPair :
        S # {} =>
          ~ \A h \in S : KSpinning(h) /\ \E g \in S : KHolds(g, KInstr(h).lk)

\* A hart inside create holds the mapping lock and spins on the allocator's
\* lock, which the other hart holds.
C2_Witness ==
    \E h, g \in HartPair :
        /\ h # g
        /\ KHolds(h, "kernel_pts_1")
        /\ KSpinning(h) /\ KInstr(h).lk = "PAGE_FRAME_ALLOCATOR"
        /\ KHolds(g, "PAGE_FRAME_ALLOCATOR")

\* The level of the token a lock consumes / yields.
KUpper(l) == level(LockTypes[LockTypeOf(l)].upper)

KLower(l) == level(LockTypes[LockTypeOf(l)].lower)

\* C4: every lock type yields a token of a level below the one it consumes,
\* and the guards a hart holds (those of the code a trap interrupted first)
\* are of strictly descending levels: each lock consumes a token of a level
\* no higher than the one the guard before it yielded.
C4_HeldLevelsDescend ==
    /\ \A t \in DOMAIN LockTypes :
          level(LockTypes[t].lower) < level(LockTypes[t].upper)
    /\ \A h \in HartPair : \A i \in 1 .. (Len(kheld[h]) - 1) :
          /\ KUpper(kheld[h][i + 1].lk) < KUpper(kheld[h][i].lk)
          /\ KUpper(kheld[h][i + 1].lk) <= KLower(kheld[h][i].lk)

\* A hart was interrupted inside create while it held the mapping lock and
\* the allocator's lock, and holds the controller's lock in trap_handler.
C4_Witness ==
    \E h \in HartPair :
        /\ Len(kheld[h]) = 3
        /\ kctx[h] = "trap"
        /\ \A i \in 1 .. 3 : kheld[h][i].got

\* C19: the lock of the shared kernel L2 page tables (kernel_pts_1), which
\* create and lookup hold while they read or write those tables, is
\* IRQ-disabling: sstatus.SIE is 0 on a hart for as long as it holds the lock.
C19_MappingLockSieClear ==
    \A h \in HartPair : KHolds(h, "kernel_pts_1") => ~ksie[h]

(***************************************************************************)
(* RegistrySpec: during boot, after TrapHandlers::initialize, drivers call *)
(* TrapHandlers::register with any cause and handler, and main.rs calls    *)
(* TrapHandlers::finalize; calls keep coming after finalize.  A panic ends *)
(* the boot: the panic handler parks the hart.                             *)
(***************************************************************************)

RegistryDead == rlast.result \notin {"ok"}

\* TrapHandlers::register, lines 59-91.  InitCell::get_mut panics when the
\* cell is finalized; indexing past the table panics; a slot that does not
\* hold PANIC panics; otherwise the slot is written.
register(trap, handler) ==
    /\ ~RegistryDead
    /\ LET result ==
             IF initialized THEN "panic_read_only"
             ELSE IF trap \notin Traps THEN "panic_index"
             ELSE IF ~SlotIsDefault(SlotOf(interrupt_handlers,
                                           exception_handlers, trap))
             THEN "panic_in_use"
             ELSE "ok"
       IN /\ rlast' = [op |-> "register", trap |-> trap, handler |-> handler,
                       result |-> result]
          /\ IF result = "ok"
             THEN /\ interrupt_handlers' =
                       IF trap.kind = "Interrupt"
                       THEN [interrupt_handlers EXCEPT ![trap.index] = handler]
                       ELSE interrupt_handlers
                  /\ exception_handlers' =
                       IF trap.kind = "Exception"
                       THEN [exception_handlers EXCEPT ![trap.index] = handler]
                       ELSE exception_handlers
                  /\ rwrites' = [rwrites EXCEPT ![trap] = @ + 1]
             ELSE UNCHANGED <<interrupt_handlers, exception_handlers, rwrites>>
    /\ UNCHANGED initialized
    /\ UNCHANGED RegistryOthers

\* TrapHandlers::finalize, lines 95-98, InitCell::finanlize lines 41-48.
finalize ==
    /\ ~RegistryDead
    /\ initialized' = TRUE
    /\ rlast' = [op |-> "finalize", trap |-> NoTrap, handler |-> PANIC,
                 result |-> IF initialized THEN "panic_read_only" ELSE "ok"]
    /\ UNCHANGED <<interrupt_handlers, exception_handlers, rwrites>>
    /\ UNCHANGED RegistryOthers

\* Mutant of InitCell_get: the flag is not looked at.
InitCell_get_Unchecked(is_initialized) == "ok"

\* InitCell::get, lines 30-38 (as_ref and borrow call it, lines 65-75).
InitCell_get(is_initialized) ==
    IF ~is_initialized THEN "panic_not_initialized" ELSE "ok"

\* TrapHandlers::get, lines 101-114: TRAP_HANDLERS.as_ref() and the read of
\* the slot of the trap; rlast.handler is the reference read.
TrapHandlersGet(trap) ==
    /\ ~RegistryDead
    /\ LET result == InitCell_get(initialized)
       IN rlast' = [op |-> "get", trap |-> trap,
                    handler |-> IF result = "ok"
                                THEN SlotOf(interrupt_handlers,
                                            exception_handlers, trap)
                                ELSE PANIC,
                    result |-> result]
    /\ UNCHANGED <<initialized, interrupt_handlers, exception_handlers, rwrites>>
    /\ UNCHANGED RegistryOthers

RegistryNext ==
    \/ \E trap \in RegisterCauses : \E handler \in HandlerRefs :
          register(trap, handler)
    \/ finalize
    \/ \E trap \in Traps : TrapHandlersGet(trap)

RegistrySpec == BootInit /\ [][RegistryNext]_vars

\* C13: register writes the slot of a cause at most once; a register call
\* for a cause whose slot holds a registered handler panics and leaves every
\* slot as it is; and once the registry is finalized no slot changes.
C13_RegisterOneShot ==
    /\ [](\A trap \in Traps : rwrites[trap] <= 1)
    /\ [][\A trap \in Traps :
            LET old == SlotOf(interrupt_handlers, exception_handlers, trap)
                new == SlotOf(interrupt_handlers', exception_handlers', trap)
            IN /\ (rlast'.op = "register" /\ rlast'.trap = trap /\ old # PANIC)
                     => (rlast'.result \in {"panic_in_use", "panic_read_only"}
                         /\ new = old)
               /\ initialized => new = old
               /\ new # old => (old = PANIC /\ rwrites'[trap] = rwrites[trap] + 1)
         ]_vars

\* A second register call for a cause has panicked; the slot still holds the
\* handler of the first call.
C13_Witness ==
    \E trap \in Traps :
        /\ rlast.op = "register" /\ rlast.trap = trap
        /\ rlast.result = "panic_in_use"
        /\ rlast.handler = "TIMER"
        /\ SlotOf(interrupt_handlers, exception_handlers, trap) = "UART"
        /\ rwrites[trap] = 1

\* C23: an InitCell is written during initialization and read after it:
\* get/as_ref panics as long as finalize has not been called and returns
\* once it has; after finalize every get_mut (of register) and every
\* finalize panics, and the value of the cell is not written any more.
C23_InitCellWriteThenRead ==
    [][/\ rlast'.op = "get" =>
             (rlast'.result = "panic_not_initialized" <=> ~initialized)
       /\ (initialized /\ rlast'.op \in {"register", "finalize"}) =>
             rlast'.result = "panic_read_only"
       /\ initialized =>
             /\ interrupt_handlers' = interrupt_handlers
             /\ exception_handlers' = exception_handlers
             /\ initialized'
      ]_vars

\* After a register and the finalize, get has returned the handler written.
C23_Witness ==
    /\ rlast.op = "get" /\ rlast.result = "ok"
    /\ rlast.handler = "UART"
    /\ initialized

\* get has panicked on the cell that is not finalized yet.
InitCellGetPanicked ==
    /\ rlast.op = "get" /\ rlast.result = "panic_not_initialized"
    /\ ~initialized

\* A register after finalize has panicked in get_mut.
InitCellGetMutPanicked ==
    /\ rlast.op = "register" /\ rlast.result = "panic_read_only"

\* C24: try_lock does not block: after its load the compare-exchange can
\* always be made, and ends the call.  It returns Ok with the guard only if
\* the lock is free at the compare-exchange (ticket = serving counter), and
\* then takes the ticket; when it does not return Ok it returns Err, the
\* caller has its upper-level token again, and the ticket and the serving
\* counter are what they were.
C24_TryLockNeverBlocks ==
    /\ [](\A h \in Harts : lpc[h] = "try" => ENABLED TryLockCas(h))
    /\ [][\A h \in Harts :
            (lpc[h] = "try" /\ lpc'[h] # "try") =>
                IF ltry'[h] = "Ok"
                THEN /\ lock.ticket = lock.counter
                     /\ lock' = [lock EXCEPT !.ticket = @ + 1]
                     /\ lpc'[h] = "held"
                ELSE /\ ltry'[h] = "Err"
                     /\ lpc'[h] = "idle"
                     /\ lock' = lock
         ]_vars

\* A try_lock has returned Err while another hart holds the lock.
C24_Witness ==
    \E h, g \in Harts :
        /\ h # g
        /\ ltry[h] = "Err" /\ lpc[h] = "idle"
        /\ lpc[g] = "held"
        /\ lock.ticket = lock.counter + 1

\* A try_lock has returned Err although the lock was free at its
\* compare-exchange: the counter moved on between its load and then.
TryLockErrOnFreeLock ==
    \E h \in Harts :
        /\ ltry[h] = "Err" /\ lpc[h] = "idle"
        /\ lock.ticket = lock.counter
        /\ \A g \in Harts : lpc[g] = "idle"

\* A try_lock has returned Ok.
TryLockOk ==
    \E h \in Harts : ltry[h] = "Ok" /\ lpc[h] = "held"

(***************************************************************************)
(* MemSpec : mm/page_allocator.rs and mm/mapping.rs.  One caller at a time *)
(* makes whole calls; the locks of the two modules serialise them.  The    *)
(* loops of VirtualMemorySystem::initalize that map the kernel image and   *)
(* the pool are callers of early_create: their windows are not among the   *)
(* addresses of the calls made here.                                       *)
(***************************************************************************)

\* initalize lines 111-123: the root table and four second-level tables.
InitialTables == 5

\* The sizes of the `pages` range, in bitmap words: initialize leaves one
\* free frame per word, which is one too few for initalize, just enough,
\* or one to spare.
PoolWords == (InitialTables - 1) .. (InitialTables + 1)

Modes == {"Kernel", "User"}

AllocatorLock == "PAGE_FRAME_ALLOCATOR"

\* PageFrameAllocator::initialize, lines 33-52, for a range of `words`
\* bitmap words whose memory holds `content`.
PageFrameAllocatorInitialize(words, content) ==
    /\ mphase = "reset"
    /\ pool_words' = words
    /\ allocator_state' = PageFrameAllocator_initialize(words)
    /\ frames' = [f \in PoolFrames |-> content]
    /\ mphase' = "start"
    /\ mlast' = Call("initialize", "Ok", 0, 0, "none", "none",
                     "Initialization", "Initialization",
                     ReleaseGuard({AllocatorLock}, AllocatorLock))
    /\ UNCHANGED <<owned, root, kernel_pts_1, created>>
    /\ UNCHANGED MemOthers

\* n calls of early_allocate(..).unwrap() in a row: the frames in the order
\* of the calls; `ok` is FALSE when one of them failed.
RECURSIVE EarlyAllocateAll(_, _, _, _)
EarlyAllocateAll(al, fr, words, n) ==
    IF n = 0
    THEN [ok |-> TRUE, state |-> al, frames |-> fr, pages |-> <<>>]
    ELSE LET a == pfa_allocate(al, words)
             rest == EarlyAllocateAll(a.state, AllocatedFrames(fr, a), words, n - 1)
         IN IF a.result # "Ok"
            THEN [ok |-> FALSE, state |-> a.state, frames |-> fr, pages |-> <<>>]
            ELSE [rest EXCEPT !.pages = <<a.addr>> \o @]

\* VirtualMemorySystem::initalize: the root table and the four kernel
\* second-level tables (lines 109-163) and the huge pages of the `pages`
\* range (lines 263-316).  The segments of the kernel image, which
\* initalize maps in between with early_create, lie in another window than
\* the `pages` range; their calls are the EarlyCreate steps that follow.
VmInitalize ==
    /\ mphase = "start"
    /\ LET r == EarlyAllocateAll(allocator_state, frames, pool_words, InitialTables)
           p_pt_0 == r.pages[1]
           p_pt_1_511 == r.pages[2]
           p_pt_1_510 == r.pages[3]
           p_pt_1_509 == r.pages[4]
           p_pt_1_508 == r.pages[5]
           Inner(p) == [set_physical_page(ZeroPte, p).pte EXCEPT !.V = TRUE]
           kpts == [i \in 0 .. 3 |->
                      CASE i = 0 -> p_pt_1_508
                        [] i = 1 -> p_pt_1_509
                        [] i = 2 -> p_pt_1_510
                        [] i = 3 -> p_pt_1_511]
           tables == SetPte(SetPte(SetPte(SetPte(r.frames,
                         p_pt_0, Entries - 1, Inner(p_pt_1_511)),
                         p_pt_0, Entries - 2, Inner(p_pt_1_510)),
                         p_pt_0, Entries - 3, Inner(p_pt_1_509)),
                         p_pt_0, Entries - 4, Inner(p_pt_1_508))
           huge == map_huge_pages(tables, pool_words, p_pt_0, kpts)
       IN IF ~r.ok \/ (r.ok /\ huge.panic)
          THEN /\ mphase' = "dead"
               /\ allocator_state' = r.state
               /\ frames' = r.frames
               /\ mlast' = Call("initalize", "panic", 0, 0, "none", "none",
                                "Initialization", "none", {})
               /\ UNCHANGED <<root, kernel_pts_1>>
          ELSE /\ mphase' = "boot"
               /\ allocator_state' = r.state
               /\ frames' = huge.frames
               /\ root' = p_pt_0
               /\ kernel_pts_1' = kpts
               /\ mlast' = Call("initalize", "Ok", 0, 0, "none", "none",
                                "Initialization", "Initialization", {})
    /\ UNCHANGED <<pool_words, owned, created>>
    /\ UNCHANGED MemOthers

\* What allocate and early_allocate do to the allocator and the memory.
AllocateStep(op, a, token_in, token_out) ==
    /\ allocator_state' = a.state
    /\ frames' = AllocatedFrames(frames, a)
    /\ owned' = IF a.result = "Ok" THEN owned \cup {a.addr} ELSE owned
    /\ mphase' = IF a.result = "panic" THEN "dead" ELSE mphase
    /\ mlast' = IF a.result = "panic"
                THEN Call(op, "panic", 0, 0, "none", "none", token_in, "none",
                          {AllocatorLock})
                ELSE Call(op, a.result, a.addr, 0, "none", "none", token_in,
                          token_out, ReleaseGuard({AllocatorLock}, AllocatorLock))
    /\ UNCHANGED <<pool_words, root, kernel_pts_1, created>>

\* PageFrameAllocator::early_allocate, lines 103-120.
EarlyAllocate ==
    /\ mphase = "boot"
    /\ AllocateStep("early_allocate", pfa_allocate(allocator_state, pool_words),
                    "Initialization", "Initialization")
    /\ UNCHANGED MemOthers

\* PageFrameAllocator::allocate, lines 83-100.
Allocate ==
    /\ mphase = "run"
    /\ AllocateStep("allocate", pfa_allocate(allocator_state, pool_words),
                    TokenAfterUnlock("TicketlockPaging"),
                    TokenAfterUnlock("TicketlockPaging"))
    /\ UNCHANGED MemOthers

\* PageFrameAllocator::early_free, lines 168-182, of a page its caller owns.
EarlyFree(page) ==
    /\ mphase = "boot"
    /\ page \in owned
    /\ LET r == pfa_free(allocator_state, page, pool_words)
       IN /\ allocator_state' = r.state
          /\ owned' = owned \ {page}
          /\ mphase' = IF r.result = "panic" THEN "dead" ELSE mphase
          /\ mlast' = Call("early_free", r.result, page, 0, "none", "none",
                           "Initialization",
                           IF r.result = "panic" THEN "none" ELSE "Initialization",
                           IF r.result = "panic" THEN {AllocatorLock}
                           ELSE ReleaseGuard({AllocatorLock}, AllocatorLock))
    /\ UNCHANGED <<pool_words, frames, root, kernel_pts_1, created>>
    /\ UNCHANGED MemOthers

\* The owner of an allocated page writes it.
WritePage(page) ==
    /\ mphase \in {"boot", "run"}
    /\ page \in owned
    /\ frames' = [frames EXCEPT ![FrameOf(page)] = DataPage]
    /\ mlast' = Call("write", "Ok", page, 0, "none", "none", "none", "none", {})
    /\ UNCHANGED <<pool_words, allocator_state, owned, root, kernel_pts_1,
                   mphase, created>>
    /\ UNCHANGED MemOthers

\* What create and early_create leave behind.
CreateStep(op, r, phys_addr, virt_addr, protection, mode, token_in, token_out) ==
    /\ allocator_state' = r.state
    /\ frames' = r.frames
    /\ mphase' = IF r.result = "panic" THEN "dead" ELSE mphase
    /\ created' = IF r.result = "Ok"
                  THEN [created EXCEPT ![virt_addr] =
                           [phys_addr |-> phys_addr, protection |-> protection,
                            mode |-> mode]]
                  ELSE created
    /\ mlast' = Call(op, r.result, 0, virt_addr, "none", mode, token_in,
                     token_out, r.held)
    /\ UNCHANGED <<pool_words, owned, root, kernel_pts_1>>

\* VirtualMemorySystem::early_create on the kernel address space.
EarlyCreate(phys_addr, virt_addr, protection, mode) ==
    /\ mphase = "boot"
    /\ LET r == early_create(frames, allocator_state, pool_words, root,
                             kernel_pts_1, phys_addr, virt_addr, protection, mode)
       IN CreateStep("early_create", r, phys_addr, virt_addr, protection, mode,
                     "Initialization",
                     IF r.result = "panic" THEN "none" ELSE "Initialization")
    /\ UNCHANGED MemOthers

\* The device ranges drivers ask early_create_dev for: bases at the start of
\* a page and inside one, lengths of a few bytes and of more than a page.
DevPhysInputs == {1024 * PAGE_SIZE, 1024 * PAGE_SIZE + 8}

DevSizeInputs == {8, PAGE_SIZE + 8}

\* VirtualMemorySystem::early_create_dev, lines 527-546: the offset, the
\* aligned size and the first page.  The virtual address of a page is its
\* physical address plus the offset; mlast.v is the address the call will
\* return.
EarlyCreateDevCall(phys_addr, size) ==
    /\ mphase = "boot"
    /\ mphase' = "dev"
    /\ mlast' = Call("early_create_dev", "running", phys_addr,
                     phys_addr + DataSegmentOffset, "none", "none",
                     "Initialization", "none", {})
                   @@ [size |-> size,
                       phys_drag_addr |-> AlignUp(phys_addr),
                       left |-> AlignUp(size + (phys_addr % PAGE_SIZE))
                                   \div PAGE_SIZE]
    /\ UNCHANGED <<pool_words, allocator_state, frames, owned, root,
                   kernel_pts_1, created>>
    /\ UNCHANGED MemOthers

\* One turn of the loop of early_create_dev, lines 548-568: the page at the
\* drag addresses is mapped RW/Kernel; an Err of early_create is a todo!().
EarlyCreateDevPage ==
    /\ mphase = "dev"
    /\ mlast.left > 0
    /\ LET virt_drag_addr == mlast.phys_drag_addr + DataSegmentOffset
           r == early_create(frames, allocator_state, pool_words, root,
                             kernel_pts_1, mlast.phys_drag_addr, virt_drag_addr,
                             "RW", "Kernel")
       IN /\ allocator_state' = r.state
          /\ frames' = r.frames
          /\ mphase' = IF r.result # "Ok" THEN "dead" ELSE mphase
          /\ created' = IF r.result = "Ok" /\ virt_drag_addr \in VirtInputs
                        THEN [created EXCEPT ![virt_drag_addr] =
                                 [phys_addr |-> mlast.phys_drag_addr,
                                  protection |-> "RW", mode |-> "Kernel"]]
                        ELSE created
          /\ mlast' = IF r.result # "Ok"
                      THEN [mlast EXCEPT !.result = "panic", !.held = r.held]
                      ELSE [mlast EXCEPT !.phys_drag_addr = @ + PAGE_SIZE,
                                         !.left = @ - 1]
    /\ UNCHANGED <<pool_words, owned, root, kernel_pts_1>>
    /\ UNCHANGED MemOthers

\* early_create_dev, lines 570-571: the loop is over.
EarlyCreateDevReturn ==
    /\ mphase = "dev"
    /\ mlast.left = 0
    /\ mphase' = "boot"
    /\ mlast' = [mlast EXCEPT !.result = "Ok", !.token_out = "Initialization"]
    /\ UNCHANGED <<pool_words, allocator_state, frames, owned, root,
                   kernel_pts_1, created>>
    /\ UNCHANGED MemOthers

\* PageFrameAllocator::free, lines 151-160, of a page its caller owns.
Free(page) ==
    /\ mphase = "run"
    /\ page \in owned
    /\ LET r == pfa_free(allocator_state, page, pool_words)
       IN /\ allocator_state' = r.state
          /\ owned' = owned \ {page}
          /\ mphase' = IF r.result = "panic" THEN "dead" ELSE mphase
          /\ mlast' = Call("free", r.result, page, 0, "none", "none",
                           TokenAfterUnlock("TicketlockPaging"),
                           IF r.result = "panic" THEN "none"
                           ELSE TokenAfterUnlock("TicketlockPaging"),
                           IF r.result = "panic" THEN {AllocatorLock}
                           ELSE ReleaseGuard({AllocatorLock}, AllocatorLock))
    /\ UNCHANGED <<pool_words, frames, root, kernel_pts_1, created>>
    /\ UNCHANGED MemOthers

\* The end of the initialization: the calls from here on hold level tokens.
BootDone ==
    /\ mphase = "boot"
    /\ mphase' = "run"
    /\ mlast' = Call("boot_done", "Ok", 0, 0, "none", "none", "Initialization",
                     "none", {})
    /\ UNCHANGED <<pool_words, allocator_state, frames, owned, root,
                   kernel_pts_1, created>>
    /\ UNCHANGED MemOthers

\* VirtualMemorySystem::create on the kernel address space.
Create(phys_addr, virt_addr, protection, mode) ==
    /\ mphase = "run"
    /\ LET r == create(frames, allocator_state, pool_words, root, kernel_pts_1,
                       phys_addr, virt_addr, protection, mode,
                       TokenAfterUnlock("TicketlockMapping"), NullAddress)
       IN CreateStep("create", r, phys_addr, virt_addr, protection, mode,
                     TokenAfterUnlock("TicketlockMapping"), r.token)
    /\ UNCHANGED MemOthers

\* VirtualMemorySystem::lookup on the kernel address space.
Lookup(virt_addr) ==
    /\ mphase = "run"
    /\ LET r == lookup(frames, pool_words, root, kernel_pts_1, virt_addr,
                       TokenAfterUnlock("TicketlockMapping"))
       IN /\ mphase' = IF r.result = "panic" THEN "dead" ELSE mphase
          /\ mlast' = Call("lookup", r.result, r.addr, virt_addr, r.protection,
                           r.mode, TokenAfterUnlock("TicketlockMapping"),
                           r.token, r.held)
    /\ UNCHANGED <<pool_words, allocator_state, frames, owned, root,
                   kernel_pts_1, created>>
    /\ UNCHANGED MemOthers

MemNext ==
    \/ \E words \in PoolWords : \E content \in {ZeroPage, DataPage} :
           PageFrameAllocatorInitialize(words, content)
    \/ VmInitalize
    \/ EarlyAllocate
    \/ \E page \in owned : EarlyFree(page)
    \/ \E page \in owned : WritePage(page)
    \/ \E phys_addr \in PhysInputs : \E virt_addr \in VirtInputs :
       \E protection \in Protections : \E mode \in Modes :
           EarlyCreate(phys_addr, virt_addr, protection, mode)
    \/ \E phys_addr \in DevPhysInputs : \E size \in DevSizeInputs :
           EarlyCreateDevCall(phys_addr, size)
    \/ EarlyCreateDevPage
    \/ EarlyCreateDevReturn
    \/ BootDone
    \/ Allocate
    \/ \E page \in owned : Free(page)
    \/ \E phys_addr \in PhysInputs : \E virt_addr \in VirtInputs :
       \E protection \in Protections : \E mode \in Modes :
           Create(phys_addr, virt_addr, protection, mode)
    \/ \E virt_addr \in VirtInputs \cup PoolVirtInputs : Lookup(virt_addr)

MemSpec == BootInit /\ [][MemNext]_vars

\* The results that are an Err of the call.
MemoryErrors ==
    {"OutOfMemory", "AddressAlreadyInUse", "NoSuchAddress", "InvalidAddress"}

\* What lookup finds for an address in the current state.
LookupNow(v) ==
    lookup(frames, pool_words, root, kernel_pts_1, v,
           TokenAfterUnlock("TicketlockMapping"))

\* The level at which the walk for v meets its first invalid entry: 0 is the
\* root table, 3 means that it meets none.
WalkMiss(v) ==
    LET vpn_0 == offset(v, 0)
        pte_0 == PteAt(frames, root, vpn_0)
        pte_1 == PteAt(frames, kernel_pts_1[vpn_0 - (Entries - 4)], offset(v, 1))
        pte_2 == PteAt(frames, get_physical_page(pte_1), offset(v, 2))
    IN IF ~pte_0.V THEN 0
       ELSE IF ~pte_1.V THEN 1
       ELSE IF ~is_inner_page_table(pte_1) THEN 3
       ELSE IF ~pte_2.V THEN 2
       ELSE 3

\* The mode create accepts for an address: that of its half.
HalfMode(v) == IF offset(v, 0) \in UserSlots THEN "User" ELSE "Kernel"

\* C14: every address that allocate or early_allocate returns is
\* page-aligned and lies inside the page pool, and its frame holds only
\* zeros when the call returns.
C14_AllocatedFrameAlignedInPoolZeroed ==
    (mlast.op \in {"allocate", "early_allocate"} /\ mlast.result = "Ok") =>
        /\ mlast.addr % PAGE_SIZE = 0
        /\ mlast.addr >= PagesMemPhysStart
        /\ mlast.addr < PagesMemPhysStart + PagesMemSize(pool_words)
        /\ frames[FrameOf(mlast.addr)] = ZeroPage

C14_Witness ==
    /\ mlast.op = "allocate"
    /\ mlast.result = "Ok"
    /\ mlast.addr > PagesMemPhysStart
    /\ mlast.addr \in owned
    /\ frames[FrameOf(mlast.addr)] = ZeroPage

\* C15: an allocate that finds no bit of the bitmap set returns
\* Err(OutOfMemory) with the Paging token and leaves the bitmap as it was.
C15_ExhaustedAllocateFails ==
    [][(mlast'.op = "allocate" /\ SetBits(allocator_state) = {}) =>
          /\ mlast'.result = "OutOfMemory"
          /\ mlast'.token_out = "Paging"
          /\ allocator_state' = allocator_state]_vars

C15_Witness ==
    /\ mlast.op = "allocate"
    /\ mlast.result = "OutOfMemory"
    /\ mlast.token_out = "Paging"
    /\ SetBits(allocator_state) = {}

\* C16: once create(p, v, prot, mode) has returned Ok, lookup(v) returns
\* exactly (p, prot, mode): the lookup that was just made did, and one made
\* now for any such v would.
C16_LookupReturnsWhatCreateMapped ==
    /\ (mlast.op = "lookup" /\ created[mlast.v] # NotCreated) =>
          /\ mlast.result = "Ok"
          /\ mlast.addr = created[mlast.v].phys_addr
          /\ mlast.protection = created[mlast.v].protection
          /\ mlast.mode = created[mlast.v].mode
    /\ \A v \in VirtInputs :
          (mphase = "run" /\ created[v] # NotCreated) =>
              /\ LookupNow(v).result = "Ok"
              /\ LookupNow(v).addr = created[v].phys_addr
              /\ LookupNow(v).protection = created[v].protection
              /\ LookupNow(v).mode = created[v].mode

C16_Witness ==
    /\ mlast.op = "lookup"
    /\ mlast.result = "Ok"
    /\ created[mlast.v] # NotCreated
    /\ mlast.addr % PAGE_SIZE # 0
    /\ mlast.protection = "RW"

C18_AnyMissNoSuchAddress ==
    (mlast.op = "lookup" /\ WalkMiss(mlast.v) # 3) =>
        mlast.result = "NoSuchAddress"

\* C18, amended: a lookup whose walk meets an invalid entry in the
\* second-level or the third-level table returns Err(NoSuchAddress); one
\* that meets an invalid entry in the root table returns
\* Err(InvalidAddress).
C18_MissBelowRootNoSuchAddress ==
    /\ (mlast.op = "lookup" /\ WalkMiss(mlast.v) \in {1, 2}) =>
          mlast.result = "NoSuchAddress"
    /\ (mlast.op = "lookup" /\ WalkMiss(mlast.v) = 0) =>
          mlast.result = "InvalidAddress"

C18_Witness ==
    /\ mlast.op = "lookup"
    /\ WalkMiss(mlast.v) = 2
    /\ mlast.result = "NoSuchAddress"

\* C20: every Err that allocate, create or lookup returns carries a token
\* of the level the caller passed in, and no lock the call took is still
\* held.
C20_ErrReturnsTokenLocksReleased ==
    (mlast.op \in {"allocate", "create", "lookup"}
        /\ mlast.result \in MemoryErrors) =>
        /\ mlast.token_out = mlast.token_in
        /\ mlast.held = {}

C20_Witness ==
    /\ mlast.op = "create"
    /\ mlast.result = "OutOfMemory"
    /\ mlast.token_out = "Mapping"
    /\ mlast.held = {}

\* The pages that hold a byte of [phys_addr, phys_addr + size).
PagesOf(phys_addr, size) ==
    {k * PAGE_SIZE :
        k \in (phys_addr \div PAGE_SIZE) .. ((phys_addr + size - 1) \div PAGE_SIZE)}

\* The page at physical address a is mapped RW/Kernel at the fixed offset.
DevPageMapped(a) ==
    /\ LookupNow(a + DataSegmentOffset).result = "Ok"
    /\ LookupNow(a + DataSegmentOffset).addr = a
    /\ LookupNow(a + DataSegmentOffset).protection = "RW"
    /\ LookupNow(a + DataSegmentOffset).mode = "Kernel"

\* C21: when early_create_dev(phys, size) returns Ok, every page that holds
\* a byte of [phys, phys + size) is mapped RW/Kernel at the fixed offset, and
\* the address returned is phys plus that offset.
C21_DevRangeCovered ==
    (mlast.op = "early_create_dev" /\ mlast.result = "Ok") =>
        /\ mlast.v = mlast.addr + DataSegmentOffset
        /\ \A a \in PagesOf(mlast.addr, mlast.size) : DevPageMapped(a)

\* The same for a base at the start of a page, where rounding up and
\* rounding down agree.
DevAlignedRangeCovered ==
    (mlast.op = "early_create_dev" /\ mlast.result = "Ok"
        /\ mlast.addr % PAGE_SIZE = 0) =>
        /\ mlast.v = mlast.addr + DataSegmentOffset
        /\ \A a \in PagesOf(mlast.addr, mlast.size) : DevPageMapped(a)

\* The frames in use: those their callers own and those that are page
\* tables.
InUse ==
    owned \cup {root} \cup {kernel_pts_1[i] : i \in 0 .. 3}
      \cup {get_physical_page(PteAt(frames, kernel_pts_1[i], j)) :
               <<i, j>> \in {ij \in (0 .. 3) \X (0 .. (Entries - 1)) :
                               /\ kernel_pts_1[ij[1]] # NullAddress
                               /\ PteAt(frames, kernel_pts_1[ij[1]], ij[2]).V}}

C26_InitializeMarksPoolFree ==
    mlast.op = "initialize" =>
        SetBits(allocator_state) =
            {<<i \div BITS, i % BITS>> :
                i \in 0 .. ((PagesMemSize(pool_words) \div PAGE_SIZE) - 1)}

(***************************************************************************)
(* CpuMapSpec : kernel/cpu_map.rs.  CPU_MAP_IDX and CPU_MAP are declared   *)
(* `const`, not `static`: every mention of them is a fresh UnsafeCell with *)
(* the initial value, which lives until the end of the statement.  The map *)
(* has no state of its own; cpu_registered only remembers the calls.       *)
(***************************************************************************)

CpuMapDead == clast.result = Panicked

RegisterHart(hart_id, idx) ==
    /\ ~CpuMapDead
    /\ Len(cpu_registered) < MAX_CPU_NUM
    /\ cpu_registered' = Append(cpu_registered, hart_id)
    /\ clast' = [op |-> "register_hart", arg |-> hart_id,
                 result |-> register_hart(hart_id, idx)]
    /\ UNCHANGED CpuMapOthers

LookupLogicalId(hart_id, found) ==
    /\ ~CpuMapDead
    /\ cpu_registered' = cpu_registered
    /\ clast' = [op |-> "lookup_logical_id", arg |-> hart_id,
                 result |-> lookup_logical_id(hart_id, found)]
    /\ UNCHANGED CpuMapOthers

LookupHartId(logical_id) ==
    /\ ~CpuMapDead
    /\ cpu_registered' = cpu_registered
    /\ clast' = [op |-> "lookup_hart_id", arg |-> logical_id,
                 result |-> lookup_hart_id(logical_id, cpu_registered)]
    /\ UNCHANGED CpuMapOthers

CpuMapNext ==
    \/ \E hart_id \in Harts : \E idx \in DanglingUsize : RegisterHart(hart_id, idx)
    \/ \E hart_id \in Harts : \E found \in DanglingUsize :
           LookupLogicalId(hart_id, found)
    \/ \E logical_id \in 0 .. (MAX_CPU_NUM - 1) : LookupHartId(logical_id)

CpuMapSpec == BootInit /\ [][CpuMapNext]_vars

\* C22: the k-th register_hart call is given logical id k, lookup_hart_id
\* of a registered logical id returns the hart that registered it, and
\* lookup_logical_id of a registered hart id returns a logical id that this
\* hart id registered: the two lookups are inverse to each other on what
\* has been registered.
C22_CpuMapRoundTrip ==
    /\ clast.op = "register_hart" =>
          clast.result = Len(cpu_registered) - 1
    /\ (clast.op = "lookup_hart_id" /\ clast.arg < Len(cpu_registered)) =>
          clast.result = cpu_registered[clast.arg + 1]
    /\ (clast.op = "lookup_logical_id"
          /\ \E k \in 1 .. Len(cpu_registered) : cpu_registered[k] = clast.arg) =>
          /\ clast.result \in 0 .. (Len(cpu_registered) - 1)
          /\ cpu_registered[clast.result + 1] = clast.arg

\* The part of C22 that no outcome of the dangling reads can satisfy.
CpuMapLookupHartIdReturns ==
    (clast.op = "lookup_hart_id" /\ clast.arg < Len(cpu_registered)) =>
        clast.result # Panicked

\* The hart ids register_hart was called with, and the logical ids given.
RegisteredHartIds == {cpu_registered[k] : k \in 1 .. Len(cpu_registered)}

AssignedLogicalIds == 0 .. (Len(cpu_registered) - 1)

\* C38: lookup_logical_id panics for a hart id that was not registered,
\* lookup_hart_id panics for a logical id that was not assigned, and what
\* either returns belongs to a registered hart.
C38_LookupsPanicOnUnregistered ==
    /\ (clast.op = "lookup_logical_id" /\ clast.arg \notin RegisteredHartIds) =>
          clast.result = Panicked
    /\ (clast.op = "lookup_hart_id" /\ clast.arg \notin AssignedLogicalIds) =>
          clast.result = Panicked
    /\ (clast.op = "lookup_logical_id" /\ clast.result # Panicked) =>
          clast.result \in AssignedLogicalIds
    /\ (clast.op = "lookup_hart_id" /\ clast.result # Panicked) =>
          clast.result \in RegisteredHartIds

\* What holds of C38: lookup_hart_id panics for every logical id that was
\* not assigned (as it does for every other one).
LookupHartIdPanicsOnUnassigned ==
    (clast.op = "lookup_hart_id" /\ clast.arg \notin AssignedLogicalIds) =>
        clast.result = Panicked

\* lookup_logical_id has returned a logical id for a hart id that was not
\* registered; lookup_hart_id was called with a logical id not assigned.
LookupLogicalIdOfUnregistered ==
    /\ clast.op = "lookup_logical_id" /\ clast.arg \notin RegisteredHartIds
    /\ clast.result # Panicked

LookupHartIdOfUnassigned ==
    /\ clast.op = "lookup_hart_id" /\ clast.arg \notin AssignedLogicalIds
    /\ cpu_registered # << >>

(***************************************************************************)
(* CauseSpec : trap/cause.rs and trap/handlers.rs.  Causes of enum         *)
(* Interrupt go through register, enqueue and dequeue, which reach the     *)
(* table and the pending bits through the conversion to usize.             *)
(***************************************************************************)

CauseDead == ~cause_last.ok

IsPendingCause(p, cause) == InterruptIntoUsize(cause) \in p.interrupts

\* A panic halts the kernel: the call is kept, and the tables, which
\* nothing reads any more, are dropped.
CausePanic(op, cause, handler, in_range) ==
    /\ cause_last' = CauseCall(op, cause, NoCause, handler, FALSE, in_range)
    /\ cause_pending' = [interrupts |-> {}, exceptions |-> {}]
    /\ cause_handlers' = [slot \in CauseSlots |-> PANIC]
    /\ cause_of' = [h \in HandlerRefs |-> NoCause]
    /\ cause_queued' = {}

\* A call whose index is past the table panics.
CauseOutOfRange(op, cause) == CausePanic(op, cause, PANIC, FALSE)

\* TrapHandlers::register, the Trap::Interrupt arm: each driver registers
\* once.
CauseRegister(cause, handler) ==
    /\ ~CauseDead
    /\ cause_of[handler] = NoCause
    /\ LET index == InterruptIntoUsize(cause) IN
         IF ~IndexInTable(index) THEN CauseOutOfRange("register", cause)
         ELSE IF cause_handlers[index] # PANIC
         THEN CausePanic("register", cause, handler, TRUE)
         ELSE /\ cause_handlers' = [cause_handlers EXCEPT ![index] = handler]
              /\ cause_of' = [cause_of EXCEPT ![handler] = cause]
              /\ cause_last' =
                    CauseCall("register", cause, NoCause, handler, TRUE, TRUE)
              /\ UNCHANGED <<cause_pending, cause_queued>>
    /\ UNCHANGED CauseOthers

\* TrapHandlers::get, the Trap::Interrupt arm.
CauseGet(cause) ==
    /\ ~CauseDead
    /\ LET index == InterruptIntoUsize(cause) IN
         IF ~IndexInTable(index) THEN CauseOutOfRange("get", cause)
         ELSE /\ cause_last' = CauseCall("get", cause, NoCause,
                                         cause_handlers[index], TRUE, TRUE)
              /\ UNCHANGED <<cause_pending, cause_handlers, cause_of,
                             cause_queued>>
    /\ UNCHANGED CauseOthers

\* TrapHandlers::enqueue.  cause_queued keeps the interrupts only.
CauseEnqueue(cause) ==
    /\ ~CauseDead
    /\ LET trap == TrapOfCause(cause) IN
         IF ~IndexInTable(trap.index) THEN CauseOutOfRange("enqueue", cause)
         ELSE /\ cause_pending' = enqueue(cause_pending, trap)
              /\ cause_queued' = IF IsInterruptCause(cause)
                                 THEN cause_queued \cup {cause}
                                 ELSE cause_queued
              /\ cause_last' =
                    CauseCall("enqueue", cause, NoCause, PANIC, TRUE, TRUE)
              /\ UNCHANGED <<cause_handlers, cause_of>>
    /\ UNCHANGED CauseOthers

\* TrapHandlers::dequeue: the loop runs over the indices of the array, and
\* the cause is built from the index of the bit.
CauseDequeue ==
    /\ ~CauseDead
    /\ LET d == dequeue(cause_pending) IN
         /\ cause_pending' = d.pending
         /\ cause_queued' =
               IF d.trap.kind = "Interrupt"
               THEN {c \in cause_queued : InterruptIntoUsize(c) # d.trap.index}
               ELSE cause_queued
         /\ cause_last' = CauseCall("dequeue", NoCause, CauseOfTrap(d.trap),
                                    PANIC, TRUE, TRUE)
    /\ UNCHANGED <<cause_handlers, cause_of>>
    /\ UNCHANGED CauseOthers

CauseNext ==
    \/ \E cause \in OccurringCauses : \E handler \in HandlerRefs :
           CauseRegister(cause, handler)
    \/ \E cause \in OccurringCauses : CauseGet(cause)
    \/ \E cause \in OccurringCauses \cup ExceptionCauses : CauseEnqueue(cause)
    \/ CauseDequeue

CauseSpec == BootInit /\ [][CauseNext]_vars

\* C30: two different interrupt causes that are enqueued never have the
\* same index, dequeue returns a cause that was enqueued, and registering or enqueuing one cause
\* leaves every other cause as it was: register refuses a cause only if
\* that very cause has a handler already, and enqueue makes no other cause
\* pending.
C30_CausesDoNotCollide ==
    /\ [](\A a, b \in cause_queued :
              a # b => InterruptIntoUsize(a) # InterruptIntoUsize(b))
    /\ [][(cause_last'.op = "dequeue" /\ cause_last'.result # NoCause) =>
              cause_last'.result \in cause_queued]_vars
    /\ [][(cause_last'.op = "register" /\ ~cause_last'.ok
              /\ cause_last'.in_range) =>
              \E handler \in HandlerRefs :
                  cause_of[handler] = cause_last'.cause]_vars
    /\ [][cause_last'.op = "enqueue" =>
              \A b \in InterruptCauses \ {cause_last'.cause} :
                  IsPendingCause(cause_pending', b)
                      = IsPendingCause(cause_pending, b)]_vars

\* The named variants alone keep C30: software, timer and external have
\* three different indices, and each comes back from dequeue as itself.
NamedCausesDoNotCollide ==
    /\ \A a, b \in NamedInterrupts :
           a # b => InterruptIntoUsize(a) # InterruptIntoUsize(b)
    /\ \A a \in NamedInterrupts :
           InterruptFromUsize(InterruptIntoUsize(a)) = a

\* The round trip that fails: a controller source comes back from dequeue
\* as a named variant.
DequeuedIsQueued ==
    [][(cause_last'.op = "dequeue" /\ cause_last'.result # NoCause) =>
          cause_last'.result \in cause_queued]_vars

\* C31: no call of register, get, enqueue or dequeue is made with an index
\* past the end of the table: every cause that can occur, the ids of the
\* controller's sources included, has a slot and a pending bit.
C31_IndicesInRange == cause_last.in_range

\* What holds of C31: the named causes and the sources below the length of
\* the table are in range, and dequeue never leaves the array.
NearIndicesInRange ==
    /\ \A cause \in InterruptCauses : IndexInTable(InterruptIntoUsize(cause))
    /\ cause_last.op = "dequeue" => cause_last.in_range
    /\ ~cause_last.in_range => cause_last.cause \in FarInterrupts

\* The pending bits of the class of a cause.
PendingOfClass(p, cause) ==
    IF IsInterruptCause(cause) THEN p.interrupts ELSE p.exceptions

\* C32: dequeue returns an interrupt whenever one is pending and an
\* exception only when none is; what it returns has the lowest index that
\* is pending in its class; it clears the bit of what it returns and no
\* other; and it returns None exactly when no bit was set.
C32_DequeueOrder ==
    [][cause_last'.op = "dequeue" =>
          LET result == cause_last'.result
              index == TrapOfCause(result).index
          IN  /\ (result = NoCause) <=>
                    (cause_pending.interrupts = {}
                        /\ cause_pending.exceptions = {})
              /\ result = NoCause => cause_pending' = cause_pending
              /\ result # NoCause =>
                    /\ IsInterruptCause(result) <=>
                          cause_pending.interrupts # {}
                    /\ index \in PendingOfClass(cause_pending, result)
                    /\ \A j \in PendingOfClass(cause_pending, result) :
                          index <= j
                    /\ cause_pending' =
                          IF IsInterruptCause(result)
                          THEN [cause_pending EXCEPT !.interrupts = @ \ {index}]
                          ELSE [cause_pending EXCEPT !.exceptions = @ \ {index}]
      ]_vars

\* dequeue has returned an interrupt, the lower of two that were pending,
\* and has left the other one and a pending exception in place.
C32_Witness ==
    /\ cause_last.op = "dequeue"
    /\ IsInterruptCause(cause_last.result)
    /\ cause_pending.exceptions # {}
    /\ \E j \in cause_pending.interrupts :
           j > InterruptIntoUsize(cause_last.result)

\* dequeue has returned an exception, and None.
DequeuedException ==
    cause_last.op = "dequeue" /\ cause_last.result \in ExceptionCauses

DequeuedNone ==
    cause_last.op = "dequeue" /\ cause_last.result = NoCause

\* dequeue clears the bit through the cause it built: for every index of
\* the tables, converting to a cause and back gives the index again.
IndexRoundTrip ==
    \A i \in 0 .. (InterruptTableLen - 1) :
        /\ InterruptIntoUsize(InterruptFromUsize(i)) = i
        /\ ExceptionIntoUsize(ExceptionFromUsize(i)) = i

\* C34: lookup returns Ok or a MemoryError for every address, those of the
\* `pages` range included: it never panics.  (Checked on the kernel address
\* space as initalize built it and as the calls of create extended it.)
C34_LookupNeverPanics ==
    mlast.op = "lookup" => mlast.result # "panic"

\* What holds of C34: lookup returns for every address whose second-level
\* entry is not a huge page.
LookupPanicsOnHugePageOnly ==
    (mlast.op = "lookup" /\ mlast.result = "panic") =>
        LET vpn_0 == offset(mlast.v, 0)
            pte_1 == PteAt(frames, kernel_pts_1[vpn_0 - (Entries - 4)],
                           offset(mlast.v, 1))
        IN /\ mlast.v \in PoolVirtInputs
           /\ pte_1.V /\ ~is_inner_page_table(pte_1)

\* lookup has returned Ok, and a MemoryError.
LookupOk == mlast.op = "lookup" /\ mlast.result = "Ok"

LookupErr == mlast.op = "lookup" /\ mlast.result \in MemoryErrors

\* The second-level entry of v is valid: the walk for v finds a third-level
\* table (or a huge page) and needs no new one.
SecondLevelValid(v) == WalkMiss(v) \in {2, 3}

\* C35: a call of early_create that returns an error, or that maps a page
\* under a second-level entry that was valid already, leaves the bitmap of
\* the allocator as it was: a frame is taken only for a new third-level
\* table.
C35_EarlyCreateFrameOnlyForNewTable ==
    [][(mlast'.op = "early_create" /\ mlast'.result # "panic"
          /\ (mlast'.result # "Ok" \/ SecondLevelValid(mlast'.v))) =>
             allocator_state' = allocator_state]_vars

\* create keeps what C35 says of early_create.
CreateFrameOnlyForNewTable ==
    [][(mlast'.op = "create" /\ mlast'.result # "panic"
          /\ (mlast'.result # "Ok" \/ SecondLevelValid(mlast'.v))) =>
             allocator_state' = allocator_state]_vars

\* The case in which early_create does as C35 says: the frame it takes
\* becomes the new third-level table.
EarlyCreateNewTable ==
    [][(mlast'.op = "early_create" /\ mlast'.result = "Ok"
          /\ ~SecondLevelValid(mlast'.v)) =>
             allocator_state' # allocator_state]_vars

\* early_create and create have mapped a second page under a second-level
\* entry.
SecondPageMapped ==
    /\ mlast.op \in {"early_create", "create"} /\ mlast.result = "Ok"
    /\ \E v \in VirtInputs \ {mlast.v} :
           /\ created[v] # NotCreated
           /\ offset(v, 0) = offset(mlast.v, 0)
           /\ offset(v, 1) = offset(mlast.v, 1)

(***************************************************************************)
(* TicketSpec: one Ticketlock under every method of the lock and of its    *)
(* guard.  lock and try_lock are as in LockSpec; on top of them come       *)
(* init_lock, is_locked, and both release methods of TicketlockGuard,      *)
(* which the impl block (lines 174-198) offers for every guard whatever    *)
(* method made it.                                                         *)
(***************************************************************************)

\* lock(), line 62: draw a ticket.
TicketLock(h) ==
    /\ tpc[h] = "idle"
    /\ tl.ticket < MaxTicket
    /\ tmy' = [tmy EXCEPT ![h] = tl.ticket]
    /\ tl' = FetchAddTicket(tl)
    /\ tpc' = [tpc EXCEPT ![h] = "spin"]
    /\ tlast' = TicketCall("lock", FALSE)
    /\ UNCHANGED tbroken
    /\ UNCHANGED TicketOthers

\* lock(), lines 65-83: the load that ends the spin loop; the guard is made.
TicketSpinExit(h) ==
    /\ tpc[h] = "spin"
    /\ SpinDone(tl, tmy[h])
    /\ tpc' = [tpc EXCEPT ![h] = "held"]
    /\ tlast' = TicketCall("lock", TRUE)
    /\ UNCHANGED <<tl, tmy, tbroken>>
    /\ UNCHANGED TicketOthers

\* init_lock(), lines 88-101: the guard is made without a ticket.
TicketInitLock(h) ==
    /\ tpc[h] = "idle"
    /\ tl' = InitLock(tl)
    /\ tpc' = [tpc EXCEPT ![h] = "init_held"]
    /\ tlast' = TicketCall("init_lock", TRUE)
    /\ UNCHANGED <<tmy, tbroken>>
    /\ UNCHANGED TicketOthers

\* try_lock(), line 109: load `counter`.
TicketTryLoad(h) ==
    /\ tpc[h] = "idle"
    /\ tl.ticket < MaxTicket
    /\ tmy' = [tmy EXCEPT ![h] = tl.counter]
    /\ tpc' = [tpc EXCEPT ![h] = "try"]
    /\ tlast' = TicketCall("try_lock", FALSE)
    /\ UNCHANGED <<tl, tbroken>>
    /\ UNCHANGED TicketOthers

\* try_lock(), lines 111-133: the compare-exchange; Err(token) or Ok(guard).
TicketTryCas(h) ==
    /\ tpc[h] = "try"
    /\ IF TryLockCasOk(tl, tmy[h])
       THEN /\ tl' = TryLockCasStore(tl, tmy[h])
            /\ tpc' = [tpc EXCEPT ![h] = "held"]
            /\ tlast' = TicketCall("try_lock", TRUE)
       ELSE /\ tl' = TryLockErr(tl)
            /\ tpc' = [tpc EXCEPT ![h] = "idle"]
            /\ tlast' = TicketCall("try_lock", FALSE)
    /\ UNCHANGED <<tmy, tbroken>>
    /\ UNCHANGED TicketOthers

\* TicketlockGuard::unlock, lines 177-191, on a guard of lock or try_lock
\* and on a guard of init_lock (whose LowerLevel is LevelInitialization).
TicketUnlock(h) ==
    /\ tpc[h] \in {"held", "init_held"}
    /\ tl.counter < MaxTicket
    /\ tl' = GuardUnlock(tl)
    /\ tbroken' = (tbroken \/ tpc[h] = "init_held")
    /\ tpc' = [tpc EXCEPT ![h] = "idle"]
    /\ tlast' = TicketCall("unlock", TRUE)
    /\ UNCHANGED tmy
    /\ UNCHANGED TicketOthers

\* TicketlockGuard::init_unlock, lines 193-197, on a guard of init_lock and
\* on a guard of lock or try_lock.
TicketInitUnlock(h) ==
    /\ tpc[h] \in {"held", "init_held"}
    /\ tl' = GuardInitUnlock(tl)
    /\ tbroken' = (tbroken \/ tpc[h] = "held")
    /\ tpc' = [tpc EXCEPT ![h] = "idle"]
    /\ tlast' = TicketCall("init_unlock", TRUE)
    /\ UNCHANGED tmy
    /\ UNCHANGED TicketOthers

\* is_locked(), lines 136-140, called by a hart that is in no other call.
TicketIsLocked(h) ==
    /\ tpc[h] \in {"idle", "held", "init_held"}
    /\ tlast' = TicketCall("is_locked", is_locked(tl))
    /\ UNCHANGED <<tl, tpc, tmy, tbroken>>
    /\ UNCHANGED TicketOthers

TicketNext ==
    \E h \in Harts :
        \/ TicketLock(h)
        \/ TicketSpinExit(h)
        \/ TicketInitLock(h)
        \/ TicketTryLoad(h)
        \/ TicketTryCas(h)
        \/ TicketUnlock(h)
        \/ TicketInitUnlock(h)
        \/ TicketIsLocked(h)

TicketSpec == BootInit /\ [][TicketNext]_vars

\* The harts that hold a guard, whatever method made it.
GuardHolders == {h \in Harts : tpc[h] \in {"held", "init_held"}}

\* The harts that spin in lock().
TicketWaiters == {h \in Harts : tpc[h] = "spin"}

\* C36: `counter` (serving) never passes `ticket`, their difference is the
\* number of harts that hold a guard or wait in lock(), and the two are equal
\* whenever nobody holds a guard or waits -- guards of init_lock, and every
\* release method of the guard, included.
C36_TicketCountsHoldersAndWaiters ==
    /\ tl.counter <= tl.ticket
    /\ tl.ticket - tl.counter = Cardinality(GuardHolders \cup TicketWaiters)
    /\ (GuardHolders \cup TicketWaiters = {}) => tl.counter = tl.ticket

\* What holds of C36: as long as every guard of lock and try_lock was
\* released by unlock and every guard of init_lock by init_unlock, the
\* difference counts the holders and waiters that came through lock and
\* try_lock; a guard of init_lock is not counted.
TicketCountsLockGuards ==
    ~tbroken =>
        /\ tl.counter <= tl.ticket
        /\ tl.ticket - tl.counter =
               Cardinality({h \in Harts : tpc[h] \in {"held", "spin"}})

\* A guard of init_lock was released by unlock: `counter` has passed
\* `ticket`.
CounterPassedTicket == tl.counter > tl.ticket

\* A guard of init_lock is held next to a guard of lock.
InitGuardNextToGuard ==
    \E h, g \in Harts : tpc[h] = "init_held" /\ tpc[g] = "held"

\* C39: is_locked returns true exactly when a guard is outstanding, and
\* false when the lock is free.
C39_IsLockedIffHeld ==
    tlast.op = "is_locked" => (tlast.result <=> GuardHolders # {})

\* What holds of C39: with guards released by their own method, is_locked
\* returns true exactly when no hart holds a guard of lock or try_lock and
\* none waits in lock(), that is, when the lock is free.
IsLockedIffFree ==
    (tlast.op = "is_locked" /\ ~tbroken) =>
        (tlast.result <=>
            {h \in Harts : tpc[h] \in {"held", "spin"}} = {})

\* is_locked has returned true on a free lock, and false on a held one.
IsLockedTrueOnFree ==
    tlast.op = "is_locked" /\ tlast.result /\ GuardHolders = {}

IsLockedFalseOnHeld ==
    tlast.op = "is_locked" /\ ~tlast.result /\ GuardHolders # {}

(***************************************************************************)
(* TrapContextSpec: the accessors of the saved CSR fields of TrapContext,  *)
(* on the context the trap entry passes to trap_handler.                   *)
(***************************************************************************)

\* trap_handler(state: *mut TrapContext, ..): the trap entry has stored the
\* CSRs of the interrupted code in the context it passes.
TrapContextPassed ==
    /\ \E context \in [CsrWords -> RawValues] : trap_context' = context
    /\ context_last' = ContextCall("entry", "sstatus", 0)
    /\ UNCHANGED TrapContextOthers

\* get_sstatus .. get_stval.
TrapContextGet(field) ==
    /\ context_last' = ContextCall("get", field, get_csr(trap_context, field))
    /\ UNCHANGED trap_context
    /\ UNCHANGED TrapContextOthers

\* set_sstatus .. set_stval.
TrapContextSet(field, v) ==
    /\ trap_context' = set_csr(trap_context, field, v)
    /\ context_last' = ContextCall("set", field, v)
    /\ UNCHANGED TrapContextOthers

TrapContextNext ==
    \/ TrapContextPassed
    \/ \E field \in CsrFields : TrapContextGet(field)
    \/ \E field \in CsrFields, v \in RawValues : TrapContextSet(field, v)

TrapContextSpec == BootInit /\ [][TrapContextNext]_vars

\* C40: for each of sstatus, sscratch, sepc, scause and stval, get_X after
\* set_X(v) returns v, and set_X leaves every other saved CSR field as it
\* was.
C40_SetThenGet ==
    /\ [](context_last.op = "set" =>
            get_csr(trap_context, context_last.field) = context_last.value)
    /\ [][context_last'.op = "set" =>
            \A field \in CsrFields \ {context_last'.field} :
                get_csr(trap_context', field) = get_csr(trap_context, field)]_vars

\* What holds of C40: the claim for sstatus; and every setter leaves
\* sscratch, sepc, scause and stval as they were.
SetThenGetSstatus ==
    /\ []((context_last.op = "set" /\ context_last.field = "sstatus") =>
            get_csr(trap_context, "sstatus") = context_last.value)
    /\ [][(context_last'.op = "set" /\ context_last'.field = "sstatus") =>
            \A field \in CsrFields \ {"sstatus"} :
                get_csr(trap_context', field) = get_csr(trap_context, field)]_vars
    /\ [][context_last'.op = "set" =>
            \A field \in CsrFields \ {"sstatus"} :
                get_csr(trap_context', field) = get_csr(trap_context, field)]_vars

\* set_sepc(v) was called on a context whose sepc and sstatus differ from v.
SetSepcLost ==
    /\ context_last.op = "set" /\ context_last.field = "sepc"
    /\ get_csr(trap_context, "sepc") # context_last.value
    /\ get_csr(trap_context, "sstatus") = context_last.value

\* set_sstatus(v) was called on a context whose sstatus was not v.
SetSstatusDone ==
    /\ context_last.op = "set" /\ context_last.field = "sstatus"
    /\ \E field \in CsrFields : get_csr(trap_context, field) # context_last.value

(***************************************************************************)
(* EnableSpec : trap/intc.rs, the enable bits of the controller.  The      *)
(* configuration space is a set of bits, bit b of the byte at offset a     *)
(* being 8 * a + b; a 32 bit word at offset a is the bits 8 * a ..         *)
(* 8 * a + 31 (little endian).                                            *)
(***************************************************************************)

\* RegisterOffset::Enable.
ENABLE_OFFSET == 8192

\* MMIOSpace::load::<u32>(offset): the mask read at this byte offset.
LoadWord(space, off) == {b \in 0 .. 31 : (8 * off + b) \in space}

\* MMIOSpace::store::<u32>(offset, mask).
StoreWord(space, off, mask) ==
    (space \ {8 * off + b : b \in 0 .. 31}) \cup {8 * off + b : b \in mask}

\* set_interrupt_enabled, lines 123-127: the enable bits of a context.
ContextOffset(hart_id, mode) ==
    IF mode = "Machine" THEN 256 * hart_id ELSE 256 * hart_id + 128

\* The word set_interrupt_enabled reads and writes: `byte_offset` is
\* `interrupt / 32`, added as it is to the byte offset of the context.
EnableWordOffset(interrupt, hart_id, mode) ==
    ENABLE_OFFSET + ContextOffset(hart_id, mode) + (interrupt \div 32)

\* set_interrupt_enabled, lines 111-146.
set_interrupt_enabled(space, interrupt, hart_id, mode, enabled) ==
    LET bit_offset == interrupt % 32
        off == EnableWordOffset(interrupt, hart_id, mode)
        mask == LoadWord(space, off)
    IN StoreWord(space, off,
                 IF enabled THEN mask \cup {bit_offset}
                 ELSE mask \ {bit_offset})

\* The enable bit of a source in a context: the bitmap of the context starts
\* at its offset and has one bit per source, source k being bit k % 32 of
\* the k / 32-th word.
EnableBit(interrupt, hart_id, mode) ==
    8 * (ENABLE_OFFSET + ContextOffset(hart_id, mode)
           + 4 * (interrupt \div 32)) + (interrupt % 32)

\* The sources configure is called with: the first and the last one of the
\* first word, the first one of the second and of the fifth word, and the
\* last source of the controller.
ConfiguredSources == {1, 31, 32, 128, NUM_INTERRUPT_SOURCES - 1}

\* What cpu_map::iter() gave initiailize: no hart, or the harts 0 .. n - 1.
OnlineHartLists ==
    {[i \in 1 .. MAX_CPU_NUM |-> IF i <= n THEN i - 1 ELSE 0] :
        n \in 0 .. MAX_CPU_NUM}

\* configure, lines 196-205: the destination hart; Panicked when the unwrap
\* or lookup_hart_id panics.
DestinationHart(curr_logical_id, harts) ==
    IF curr_logical_id = 0
    THEN IF \E i \in 1 .. MAX_CPU_NUM : harts[i] # 0
         THEN harts[CHOOSE i \in 1 .. MAX_CPU_NUM :
                        /\ harts[i] # 0
                        /\ \A j \in 1 .. (i - 1) : harts[j] = 0]
         ELSE Panicked
    ELSE lookup_hart_id(curr_logical_id, RegisteredHarts)

EnableDead == ~plic_last.ok

\* initiailize, lines 321-350: the list of harts is stored; priorities and
\* thresholds are written, the enable bits are not.
PlicInitialize(harts) ==
    /\ ~EnableDead
    /\ plic_last.op = "new"
    /\ plic_harts' = harts
    /\ plic_last' = PlicCall("initialize", 0, 0, TRUE)
    /\ UNCHANGED plic_enable
    /\ UNCHANGED EnableOthers

\* configure, lines 185-210, on the hart with logical id curr_logical_id.
\* A u32 access at an offset that is no multiple of 4 is made as it stands
\* or faults, as the machine has it (`misaligned`).
PlicConfigure(interrupt, curr_logical_id, misaligned) ==
    /\ ~EnableDead
    /\ LET hart_id == DestinationHart(curr_logical_id, plic_harts)
           off == EnableWordOffset(interrupt, hart_id, "Supervisor")
       IN IF hart_id = Panicked \/ (off % 4 # 0 /\ misaligned = "fault")
          THEN /\ plic_last' = PlicCall("configure", interrupt, 0, FALSE)
               /\ UNCHANGED plic_enable
          ELSE /\ plic_enable' = set_interrupt_enabled(
                      plic_enable, interrupt, hart_id, "Supervisor", TRUE)
               /\ plic_last' = PlicCall("configure", interrupt, hart_id, TRUE)
    /\ UNCHANGED plic_harts
    /\ UNCHANGED EnableOthers

EnableNext ==
    \/ \E harts \in OnlineHartLists : PlicInitialize(harts)
    \/ \E interrupt \in ConfiguredSources, curr_logical_id \in Harts,
          misaligned \in {"access", "fault"} :
           PlicConfigure(interrupt, curr_logical_id, misaligned)

EnableSpec == BootInit /\ [][EnableNext]_vars

\* C37: a call of configure(k) that returns has set the enable bit of source
\* k in the supervisor context of the destination hart, and no other bit of
\* the enable bitmaps has changed.
C37_ConfigureSetsEnableBit ==
    [][(plic_last'.op = "configure" /\ plic_last'.ok) =>
          plic_enable' = plic_enable \cup
              {EnableBit(plic_last'.interrupt, plic_last'.hart, "Supervisor")}]_vars

\* What holds of C37: the claim for the sources of the first word, 1 .. 31.
ConfigureSetsEnableBitOfFirstWord ==
    [][(plic_last'.op = "configure" /\ plic_last'.ok
          /\ plic_last'.interrupt < 32) =>
          plic_enable' = plic_enable \cup
              {EnableBit(plic_last'.interrupt, plic_last'.hart, "Supervisor")}]_vars

\* configure has returned for a source of the first word, and for source
\* 128, whose bit is not set while that of source 32 is.
ConfiguredFirstWord ==
    /\ plic_last.op = "configure" /\ plic_last.ok
    /\ plic_last.interrupt < 32
    /\ EnableBit(plic_last.interrupt, plic_last.hart, "Supervisor") \in plic_enable

ConfiguredFifthWord ==
    /\ plic_last.op = "configure" /\ plic_last.ok
    /\ plic_last.interrupt = 128
    /\ EnableBit(128, plic_last.hart, "Supervisor") \notin plic_enable
    /\ EnableBit(32, plic_last.hart, "Supervisor") \in plic_enable

====
